---- MODULE Spec2Model ----
(***************************************************************************)
(* Model of the Telegram webhook of the Jarvis assistant                   *)
(* (app/routers/telegram.py) and of the services and use cases it calls.   *)
(*                                                                         *)
(* Texts are sequences of characters.  A character is a one-character      *)
(* string; a non-ASCII character is written as a token ("a~" for a with    *)
(* tilde, ":money:" for an emoji, "NL" for a line feed).                   *)
(***************************************************************************)
EXTENDS Integers, Sequences, FiniteSets, TLC

(* ---------------------------------------------------------------------- *)
(* Python str operations used by the code                                  *)
(* ---------------------------------------------------------------------- *)

UpperChars == <<"A","B","C","D","E","F","G","H","I","J","K","L","M","N","O","P","Q","R","S","T","U","V","W","X","Y","Z","A~","E'","C,">>

LowerChars == <<"a","b","c","d","e","f","g","h","i","j","k","l","m","n","o","p","q","r","s","t","u","v","w","x","y","z","a~","e'","c,">>

DigitChars == <<"0","1","2","3","4","5","6","7","8","9">>

\* str.lower() on one character
LowerChar(c) ==
  IF \E i \in 1..Len(UpperChars) : UpperChars[i] = c
  THEN LowerChars[CHOOSE i \in 1..Len(UpperChars) : UpperChars[i] = c]
  ELSE c

\* str.lower()
Lower(s) == [i \in 1..Len(s) |-> LowerChar(s[i])]

IsSpace(c) == c \in {" ", "NL"}

IsDigit(c) == \E i \in 1..10 : DigitChars[i] = c

DigitVal(c) == (CHOOSE i \in 1..10 : DigitChars[i] = c) - 1

\* str.strip()
Strip(s) ==
  LET idx == {i \in 1..Len(s) : ~IsSpace(s[i])}
  IN  IF idx = {} THEN <<>>
      ELSE LET lo == CHOOSE i \in idx : \A j \in idx : i <= j
               hi == CHOOSE i \in idx : \A j \in idx : i >= j
           IN  SubSeq(s, lo, hi)

\* sub in s
Contains(s, sub) ==
  \E i \in 1..(Len(s) - Len(sub) + 1) : SubSeq(s, i, i + Len(sub) - 1) = sub

\* s.startswith(p)
StartsWith(s, p) == Len(s) >= Len(p) /\ SubSeq(s, 1, Len(p)) = p

\* the characters of s that satisfy Keep, in order
RECURSIVE FilterChars(_, _)
FilterChars(s, keep) ==
  IF s = <<>> THEN <<>>
  ELSE (IF Head(s) \in keep THEN <<Head(s)>> ELSE <<>>) \o FilterChars(Tail(s), keep)

\* s.replace(a, b) for a single character a and a text b
RECURSIVE ReplaceChar(_, _, _)
ReplaceChar(s, a, b) ==
  IF s = <<>> THEN <<>>
  ELSE (IF Head(s) = a THEN b ELSE <<Head(s)>>) \o ReplaceChar(Tail(s), a, b)

\* s.replace(sub, "") for a non-empty text sub
RECURSIVE RemoveSub(_, _)
RemoveSub(s, sub) ==
  IF Len(s) < Len(sub) THEN s
  ELSE IF SubSeq(s, 1, Len(sub)) = sub THEN RemoveSub(SubSeq(s, Len(sub) + 1, Len(s)), sub)
  ELSE <<Head(s)>> \o RemoveSub(Tail(s), sub)

\* s.split(c) for a single character c: the sequence of the parts
RECURSIVE SplitOn(_, _)
SplitOn(s, c) ==
  LET idx == {i \in 1..Len(s) : s[i] = c}
  IN  IF idx = {} THEN <<s>>
      ELSE LET i == CHOOSE j \in idx : \A k \in idx : j <= k
           IN  <<SubSeq(s, 1, i - 1)>> \o SplitOn(SubSeq(s, i + 1, Len(s)), c)

RECURSIVE Pow10(_)
Pow10(n) == IF n = 0 THEN 1 ELSE 10 * Pow10(n - 1)

\* the value of a run of decimal digits
RECURSIVE DigitsValue(_)
DigitsValue(s) ==
  IF s = <<>> THEN 0 ELSE DigitsValue(SubSeq(s, 1, Len(s) - 1)) * 10 + DigitVal(s[Len(s)])

\* str(n) for a natural number
RECURSIVE DigitsOf(_)
DigitsOf(n) ==
  IF n < 10 THEN <<DigitChars[n + 1]>> ELSE DigitsOf(n \div 10) \o <<DigitChars[(n % 10) + 1]>>

(* ---------------------------------------------------------------------- *)
(* app/core/utils.py                                                       *)
(* ---------------------------------------------------------------------- *)

\* A float is the decimal num / 10^dec, kept with no trailing zero in its
\* fraction, so that equal numbers are equal values.
RECURSIVE NormFloat(_)
NormFloat(a) ==
  IF a.dec > 0 /\ a.num % 10 = 0
  THEN NormFloat([num |-> a.num \div 10, dec |-> a.dec - 1])
  ELSE a

\* Python's float(s) on a text of digits and dots: a value, or ValueError
PyFloat(s) ==
  LET dots   == {i \in 1..Len(s) : s[i] = "."}
      digits == FilterChars(s, {DigitChars[i] : i \in 1..10})
  IN  IF digits = <<>> \/ Cardinality(dots) > 1 \/ Len(digits) + Cardinality(dots) # Len(s)
      THEN [ok |-> FALSE]
      ELSE [ok  |-> TRUE,
            val |-> NormFloat([num |-> DigitsValue(digits),
                               dec |-> IF dots = {} THEN 0
                                       ELSE Len(s) - (CHOOSE i \in dots : TRUE)])]

\* to_float on a str: [ok |-> TRUE, val |-> float], or [ok |-> FALSE] for ValueError
to_float(value) ==
  LET cleaned0 == FilterChars(Strip(value), {DigitChars[i] : i \in 1..10} \cup {",", "."})
      cleaned  == IF \E i \in 1..Len(cleaned0) : cleaned0[i] = ","
                  THEN ReplaceChar(ReplaceChar(cleaned0, ".", <<>>), ",", <<".">>)
                  ELSE cleaned0
  IN  PyFloat(cleaned)

\* main.py, JarvisOrchestrator.parse_amount: float(amount_str.strip().replace(',', '.')),
\* and 0.0 when float raises
parse_amount(amount_str) ==
  LET Parsed(r) == IF r.ok THEN r.val ELSE [num |-> 0, dec |-> 0]
  IN  Parsed(PyFloat(ReplaceChar(Strip(amount_str), ",", <<".">>)))

\* a formatting that keeps the decimal point
format_currency_dot(value) ==
  LET cents == IF value.dec <= 2 THEN value.num * Pow10(2 - value.dec)
               ELSE value.num \div Pow10(value.dec - 2)
      frac  == cents % 100
  IN  DigitsOf(cents \div 100) \o <<".">> \o <<DigitChars[(frac \div 10) + 1], DigitChars[(frac % 10) + 1]>>

\* f"{value:.2f}".replace('.', ',').  A value with more than two decimals is
\* rounded to the nearest hundredth (a decimal tie to the even hundredth).
format_currency_br(value) ==
  LET cents == IF value.dec <= 2 THEN value.num * Pow10(2 - value.dec)
               ELSE LET unit == Pow10(value.dec - 2)
                        q    == value.num \div unit
                        r    == value.num % unit
                    IN  IF 2 * r > unit \/ (2 * r = unit /\ q % 2 = 1) THEN q + 1 ELSE q
      frac  == cents % 100
  IN  DigitsOf(cents \div 100) \o <<",">> \o <<DigitChars[(frac \div 10) + 1], DigitChars[(frac % 10) + 1]>>

\* ensure_string_id: str(chat_id).  The services apply it to the identifier they
\* are given; applying it again to its own result changes nothing, so the use
\* cases pass the identifier through.
ensure_string_id(chat_id) == DigitsOf(chat_id)


(* ---------------------------------------------------------------------- *)
(* Bounds and inputs                                                       *)
(* ---------------------------------------------------------------------- *)

\* webhook calls in one behaviour
MaxDeliveries == 2

\* webhook calls that may be between their guard read and their return at once
MaxInFlight == 2

\* chat ids as the platform sends them (integers)
Chats == {7, 8}

\* The updates the platform may deliver; update m has message_id m.
\* The empty text is a voice message (msg.get("text", "") of a voice update).
Inbox == <<
  [chat |-> 7, text |-> <<"/","r","e","s","e","t">>],
  [chat |-> 7, text |-> <<"/","p","a","s","t","a"," ","B","e","t","a">>],
  [chat |-> 7, text |-> <<"/","r","e","s","u","m","o">>],
  [chat |-> 7, text |-> <<"O","i">>],
  [chat |-> 7, text |-> <<"g","a","s","t","o"," ","0">>],
  [chat |-> 7, text |-> <<"G","a","s","t","e","i"," ","5",",","5","0"," ","u","b","e","r">>],
  [chat |-> 7, text |-> <<"E","n","t","e","n","d","i","."," ","C","o","m","o"," ","p","o","s","s","o"," ","a","j","u","d","a","r","?">>],
  [chat |-> 7, text |-> <<>>],
  [chat |-> 7, text |-> <<"l","e","m","b","r","a","r"," ","d","e"," ","p","a","g","a","r"," ","l","u","z">>],
  [chat |-> 7, text |-> <<"a","n","a","l","i","s","a","r"," ","n","o","t","a","s",".","t","x","t">>],
  [chat |-> 7, text |-> <<"r","e","s","u","m","o"," ","d","a"," ","p","a","s","t","a"," ","V","a","z","i","a">>],
  [chat |-> 8, text |-> <<"B","o","m"," ","d","i","a">>],
  [chat |-> 8, text |-> <<"/","r","e","s","e","t">>] >>

MsgIds == 1..Len(Inbox)

\* an inbound update: {"message": {"chat": {"id": chat}, "message_id": m, "text" | "voice": ...}}
Event(m) ==
  LET Update(u) == [chat |-> u.chat, msg_id |-> m, text |-> u.text, voice |-> u.text = <<>>]
  IN  Update(Inbox[m])

Events == {Event(m) : m \in MsgIds}

ChatKeys == {ensure_string_id(c) : c \in Chats}

MarkerKeys == {<<ensure_string_id(Inbox[m].chat), DigitsOf(m)>> : m \in MsgIds}

(* ---------------------------------------------------------------------- *)
(* State                                                                   *)
(* ---------------------------------------------------------------------- *)

VARIABLES
  dbConfigured,   \* FirestoreService.db is a client (not None)
  aiConfigured,   \* GeminiService.model is a model (not None)
  db,             \* the Firestore documents: processed_ids, mensagens, tasks, expenses, chats
  calendar,       \* the events created in the Google Calendar
  deliv,          \* the webhook calls in progress, by slot
  delivered,      \* number of webhook calls started
  passes,         \* per marker key, the number of anti-loop checks that returned False
  handled,        \* the events for which a webhook call has returned
  last,           \* what the webhook call that returned last did
  probe           \* a call of one function on its own: its inputs and its result

webhook == <<dbConfigured, aiConfigured, db, calendar, deliv, delivered, passes, handled, last>>

vars == <<dbConfigured, aiConfigured, db, calendar, deliv, delivered, passes, handled, last, probe>>

\* dict.get(key, default)
Get(d, key, default) == IF key \in DOMAIN d THEN d[key] ELSE default

(* ---------------------------------------------------------------------- *)
(* app/services/firestore_service.py, on the document tree d               *)
(* ---------------------------------------------------------------------- *)

\* the marker document chats/<chat>/processed_ids/<message_id>
MarkerKey(chat_id, message_id) == <<ensure_string_id(chat_id), DigitsOf(message_id)>>

\* a check that reads the marker of the chat alone, which nothing writes
MarkerExistsWrongKey(d, chat_id, message_id) ==
  MarkerKey(chat_id, 0) \in DOMAIN d.processed_ids /\ d.processed_ids[MarkerKey(chat_id, 0)] > 0

\* doc_ref.get().exists
MarkerExists(d, chat_id, message_id) == d.processed_ids[MarkerKey(chat_id, message_id)] > 0

\* doc_ref.set({'timestamp': now}): the document is written (again)
MarkerSet(d, chat_id, message_id) ==
  [d EXCEPT !.processed_ids[MarkerKey(chat_id, message_id)] = @ + 1]

\* a save_message that appends the turn to the history of every chat
save_message_shared(d, chat_id, role, content) ==
  IF ~dbConfigured THEN d
  ELSE [d EXCEPT !.mensagens = [k \in DOMAIN @ |-> Append(@[k], [role |-> role, content |-> content])]]

\* save_message
save_message(d, chat_id, role, content) ==
  IF ~dbConfigured THEN d
  ELSE [d EXCEPT !.mensagens[ensure_string_id(chat_id)] =
                    Append(@, [role |-> role, content |-> content])]

\* get_history default limit
HistoryLimit == 6

\* reversed(s)
Reverse(s) == [i \in 1..Len(s) |-> s[Len(s) + 1 - i]]

\* "\n".join(lines)
RECURSIVE JoinLines(_)
JoinLines(lines) ==
  IF lines = <<>> THEN <<>>
  ELSE lines[1] \o (IF Len(lines) > 1 THEN <<"NL">> ELSE <<>>) \o JoinLines(Tail(lines))

\* .order_by('timestamp', direction=DESCENDING).limit(limit).stream() on the
\* turns m of a chat.  save_message stamps a turn with the time of the call,
\* so m, kept in the order of the appends, is in ascending timestamp order.
HistoryDocs(m, limit) ==
  LET Limited(docs) == IF Len(docs) <= limit THEN docs ELSE SubSeq(docs, 1, limit)
  IN  Limited(Reverse(m))

\* the characters of a role name
RoleText(role) == IF role = "user" THEN <<"u","s","e","r">> ELSE <<"m","o","d","e","l">>

\* f"{data['role']}: {data['content']}" for each document
HistoryMessages(docs) ==
  [i \in 1..Len(docs) |-> RoleText(docs[i].role) \o <<":"," ">> \o docs[i].content]

\* a get_history that joins the messages in the order of the query
get_history_unreversed(d, chat_id, limit) ==
  IF ~dbConfigured THEN <<>>
  ELSE JoinLines(HistoryMessages(HistoryDocs(d.mensagens[ensure_string_id(chat_id)], limit)))

\* get_history: "" without a client, else the messages of the query, reversed
\* and joined by line feeds
get_history(d, chat_id, limit) ==
  IF ~dbConfigured THEN <<>>
  ELSE JoinLines(Reverse(HistoryMessages(HistoryDocs(d.mensagens[ensure_string_id(chat_id)], limit))))

\* the turns of m outside the index set del, in order
RECURSIVE RemoveAt(_, _, _)
RemoveAt(m, del, i) ==
  IF i > Len(m) THEN <<>>
  ELSE (IF i \in del THEN <<>> ELSE <<m[i]>>) \o RemoveAt(m, del, i + 1)

\* the sets of documents that .limit(limit).stream() may return: the query
\* has no order_by, so the store returns `limit` documents in document-id
\* order, and the ids are random
LimitChoices(m, limit) ==
  IF Len(m) <= limit THEN {1..Len(m)}
  ELSE {s \in SUBSET (1..Len(m)) : Cardinality(s) = limit}

\* a reset that deletes the whole document tree of the chat, markers included
reset_history_whole_chat(d, chat_id, del) ==
  IF ~dbConfigured THEN d
  ELSE [d EXCEPT !.mensagens[ensure_string_id(chat_id)] = <<>>,
                 !.processed_ids = [k \in DOMAIN @ |-> IF k[1] = ensure_string_id(chat_id) THEN 0 ELSE @[k]]]

\* a reset that deletes the tasks of the chat as well
reset_history_and_tasks(d, chat_id, del) ==
  IF ~dbConfigured THEN d
  ELSE [d EXCEPT !.mensagens[ensure_string_id(chat_id)] = RemoveAt(@, del, 1),
                 !.tasks[ensure_string_id(chat_id)] = <<>>]

\* reset_history, deleting the documents del
reset_history(d, chat_id, del) ==
  IF ~dbConfigured THEN d
  ELSE [d EXCEPT !.mensagens[ensure_string_id(chat_id)] = RemoveAt(@, del, 1)]

\* s with x after its first pos elements
InsertAt(s, pos, x) == SubSeq(s, 1, pos) \o <<x>> \o SubSeq(s, pos + 1, Len(s))

\* an add_task that writes the task document twice
add_task_twice(d, chat_id, item, pos) ==
  IF ~dbConfigured THEN d
  ELSE [d EXCEPT !.tasks[ensure_string_id(chat_id)] =
                    InsertAt(InsertAt(@, pos, [item |-> item, status |-> "pendente"]),
                             pos, [item |-> item, status |-> "pendente"])]

\* add_task.  The tasks of a chat are kept in the order in which the store
\* streams them, the order of their document ids; collection.add() gives the
\* new document a random id, so it lands at any position pos of that order.
add_task(d, chat_id, item, pos) ==
  IF ~dbConfigured THEN d
  ELSE [d EXCEPT !.tasks[ensure_string_id(chat_id)] =
                    InsertAt(@, pos, [item |-> item, status |-> "pendente"])]

\* a get_tasks without the filter on the status
get_tasks_any_status(d, chat_id) ==
  IF ~dbConfigured THEN <<>>
  ELSE d.tasks[ensure_string_id(chat_id)]

\* get_tasks: the pending tasks
get_tasks(d, chat_id) ==
  IF ~dbConfigured THEN <<>>
  ELSE SelectSeq(d.tasks[ensure_string_id(chat_id)], LAMBDA t : t.status = "pendente")

\* a match that compares the texts as they are
CompleteMatchCaseSensitive(d, chat_id, item) ==
  LET ts == d.tasks[ensure_string_id(chat_id)]
      ms == {i \in 1..Len(ts) : ts[i].status = "pendente" /\ Contains(ts[i].item, item)}
  IN  IF ms = {} THEN 0 ELSE CHOOSE i \in ms : \A j \in ms : i <= j

\* the index complete_task updates: the first pending task whose item contains `item`
CompleteMatch(d, chat_id, item) ==
  LET ts == d.tasks[ensure_string_id(chat_id)]
      ms == {i \in 1..Len(ts) : ts[i].status = "pendente" /\ Contains(Lower(ts[i].item), Lower(item))}
  IN  IF ms = {} THEN 0 ELSE CHOOSE i \in ms : \A j \in ms : i <= j

\* complete_task: [d, ok]
complete_task(d, chat_id, item) ==
  IF ~dbConfigured THEN [d |-> d, ok |-> FALSE]
  ELSE LET i == CompleteMatch(d, chat_id, item)
       IN  IF i = 0 THEN [d |-> d, ok |-> FALSE]
           ELSE [d  |-> [d EXCEPT !.tasks[ensure_string_id(chat_id)][i].status = "concluido"],
                 ok |-> TRUE]

\* Time.  An instant is a number of ticks; a month has TicksPerMonth of them.
TicksPerMonth == 2

\* datetime(year, month, 1) and the ticks after it
Instant(year, month, tick) == (year * 12 + (month - 1)) * TicksPerMonth + tick

\* now.year
YearOf(t) == t \div (12 * TicksPerMonth)

\* now.month
MonthOf(t) == ((t \div TicksPerMonth) % 12) + 1

\* datetime.now() in the webhook calls of one behaviour: they all happen at
\* one instant of December 2026
Today == Instant(2026, 12, 1)

\* add_expense called at the instant now: the document is stamped with datetime.now()
add_expense_at(d, chat_id, amount, category, item, now) ==
  IF ~dbConfigured THEN d
  ELSE [d EXCEPT !.expenses[ensure_string_id(chat_id)] =
                    Append(@, [amount |-> amount, category |-> category, item |-> item,
                               timestamp |-> now])]

\* add_expense in a webhook call
add_expense(d, chat_id, amount, category, item) ==
  add_expense_at(d, chat_id, amount, category, item, Today)

\* get_expenses: the documents with start_date <= timestamp <= end_date
get_expenses(d, chat_id, start_date, end_date) ==
  IF ~dbConfigured THEN <<>>
  ELSE SelectSeq(d.expenses[ensure_string_id(chat_id)],
                 LAMBDA e : e.timestamp >= start_date /\ e.timestamp <= end_date)

\* files_data of save_last_folder_context: the name and the id of each file
FilesData(files) ==
  [i \in 1..Len(files) |-> [name |-> Get(files[i], "name", <<>>), id |-> Get(files[i], "id", <<>>)]]

\* save_last_folder_context: set(..., merge=True) of the chat's document
save_last_folder_context(d, chat_id, folder_name, files) ==
  IF ~dbConfigured THEN d
  ELSE [d EXCEPT !.chats[ensure_string_id(chat_id)] =
                    [last_folder_name |-> folder_name, last_folder_files |-> FilesData(files)]]

\* get_last_folder_context: the context (found), or None (not found)
get_last_folder_context(d, chat_id) ==
  IF ~dbConfigured THEN [found |-> FALSE]
  ELSE LET doc == d.chats[ensure_string_id(chat_id)]
       IN  IF doc.last_folder_name # <<>> /\ doc.last_folder_files # <<>>
           THEN [found |-> TRUE, folder_name |-> doc.last_folder_name, files |-> doc.last_folder_files]
           ELSE [found |-> FALSE]

(* ---------------------------------------------------------------------- *)
(* app/services/gemini_service.py                                          *)
(* ---------------------------------------------------------------------- *)

MsgNotConfigured == <<"I","A"," ","n","a~","o"," ","c","o","n","f","i","g","u","r","a","d","a",".">>

\* the fixed generic prompt of the anti-echo rule (REGRA 4)
MsgGenericPrompt == <<"E","n","t","e","n","d","i","."," ","C","o","m","o"," ","p","o","s","s","o"," ","a","j","u","d","a","r","?">>

MsgInvalidJson == <<"D","e","s","c","u","l","p","e",","," ","n","a~","o"," ","c","o","n","s","e","g","u","i"," ","p","r","o","c","e","s","s","a","r","."," ","T","e","n","t","e"," ","d","e"," ","n","o","v","o",".">>

MsgAiError == <<"D","e","s","c","u","l","p","e",","," ","t","i","v","e"," ","u","m"," ","p","r","o","b","l","e","m","a","."," ","T","e","n","t","e"," ","e","m"," ","i","n","s","t","a","n","t","e","s",".">>

\* "lembrar" in text.lower() or "lembrete" in text.lower() or "agendar" in text.lower()
HasScheduleWord(text) ==
  \E w \in {<<"l","e","m","b","r","a","r">>, <<"l","e","m","b","r","e","t","e">>, <<"a","g","e","n","d","a","r">>} : Contains(Lower(text), w)

\* the except branches of chat: the keyword fallback
ChatFallback(text, apology) ==
  IF HasScheduleWord(text)
  THEN [intent |-> "agendar", title |-> text, start_iso |-> <<>>, end_iso |-> <<>>, description |-> <<>>]
  ELSE [intent |-> "conversa", response |-> apology]

\* the anti-echo rule on a parsed answer (REGRA 4: Anti-Papagaio)
AntiPapagaio(data, text) ==
  IF Get(data, "intent", "None") = "conversa"
     /\ LET ai_response == Lower(Strip(Get(data, "response", <<>>)))
        IN  ai_response = Lower(Strip(text)) \/ ai_response = <<>>
  THEN [k \in DOMAIN data \cup {"response"} |-> IF k = "response" THEN MsgGenericPrompt ELSE data[k]]
  ELSE data

\* GeminiService.chat.  `gen` is what the remote model does: [kind |-> "json",
\* data |-> the parsed dict], [kind |-> "invalid_json"] or [kind |-> "error"].
\* With is_audio the parameter text is the uploaded file, which has no
\* strip() and no lower(): AttributeError.  The result is [raised, data].
chat(text, is_audio, gen) ==
  IF ~aiConfigured
  THEN [raised |-> FALSE, data |-> [intent |-> "conversa", response |-> MsgNotConfigured]]
  ELSE IF gen.kind = "json" /\ ~(is_audio /\ Get(gen.data, "intent", "None") = "conversa")
  THEN [raised |-> FALSE, data |-> AntiPapagaio(gen.data, text)]
  ELSE IF is_audio
  THEN [raised |-> TRUE]
  ELSE [raised |-> FALSE,
        data   |-> ChatFallback(text, IF gen.kind = "invalid_json" THEN MsgInvalidJson ELSE MsgAiError)]

\* what generate_content(prompt) returns when the model answers
SummaryText == <<"R","e","s","u","m","o"," ","d","a"," ","p","a","s","t","a",".">>

(* ---------------------------------------------------------------------- *)
(* app/services/drive_service.py                                           *)
(* ---------------------------------------------------------------------- *)

\* the folders the service account sees, in the order the API lists them
DriveFolders == <<
  [id |-> "F1", name |-> <<"P","r","o","j","e","t","o"," ","B","e","t","a">>],
  [id |-> "F2", name |-> <<"V","a","z","i","a">>] >>

\* files().list of a folder
DriveFiles(folder_id) ==
  IF folder_id = "F1"
  THEN << [id |-> "A1", name |-> <<"n","o","t","a","s",".","t","x","t">>, mimeType |-> "text/plain"] >>
  ELSE <<>>

\* the pages in which files().list returns those folders
DrivePages == << <<DriveFolders[1]>>, <<DriveFolders[2]>> >>

\* files().list(..., pageToken=page_token).execute() on a catalog given as its
\* pages: the token of a page is its index, 0 is None
FilesList(pages, page_token) ==
  LET Page(i) == [files |-> pages[i], nextPageToken |-> IF i < Len(pages) THEN i + 1 ELSE 0]
  IN  Page(IF page_token = 0 THEN 1 ELSE page_token)

\* the loop `while True` of search_folder: all_folders
RECURSIVE ListAllFolders(_, _)
ListAllFolders(pages, page_token) ==
  LET Got(result) ==
        result.files \o (IF result.nextPageToken # 0
                         THEN ListAllFolders(pages, result.nextPageToken) ELSE <<>>)
  IN  Got(FilesList(pages, page_token))

\* the number of files().list calls of that loop
RECURSIVE ListCalls(_, _)
ListCalls(pages, page_token) ==
  LET Got(result) ==
        1 + (IF result.nextPageToken # 0 THEN ListCalls(pages, result.nextPageToken) ELSE 0)
  IN  Got(FilesList(pages, page_token))

\* search_folder after the enumeration: the exact match, then the contains match
MatchFolder(all_folders, name_query) ==
  LET first(S) == CHOOSE i \in S : \A j \in S : i <= j
      Query(search_name_lower) ==
        LET exact == {i \in 1..Len(all_folders) : Strip(Lower(all_folders[i].name)) = search_name_lower}
            cont  == {i \in 1..Len(all_folders) : Contains(Lower(all_folders[i].name), search_name_lower)}
        IN  IF exact # {} THEN [found |-> TRUE, folder |-> all_folders[first(exact)]]
            ELSE IF cont # {} THEN [found |-> TRUE, folder |-> all_folders[first(cont)]]
            ELSE [found |-> FALSE]
  IN  Query(Strip(Lower(Strip(ReplaceChar(ReplaceChar(name_query, "'", <<>>), "\"", <<>>)))))

\* search_folder on the catalog `pages`: [found |-> TRUE, folder |-> ...] or
\* [found |-> FALSE] (None)
search_folder_in(pages, name_query, driveUp) ==
  IF ~driveUp THEN [found |-> FALSE]
  ELSE MatchFolder(ListAllFolders(pages, 0), name_query)

\* search_folder on the Drive of the service account
search_folder(name_query, driveUp) == search_folder_in(DrivePages, name_query, driveUp)

\* main.py, DriveService.find_folder: one files().list call with the filter
\* name='folder_name', of which only the first page is read; the id of the
\* first item, or None
find_folder(pages, folder_name) ==
  LET Got(items) ==
        IF items # <<>> THEN [found |-> TRUE, id |-> items[1].id] ELSE [found |-> FALSE]
  IN  Got(SelectSeq(FilesList(pages, 0).files, LAMBDA f : f.name = folder_name))

\* list_files_in_folder
list_files_in_folder(folder_id, driveUp) == IF driveUp THEN DriveFiles(folder_id) ELSE <<>>

(* ---------------------------------------------------------------------- *)
(* app/use_cases                                                           *)
(* ---------------------------------------------------------------------- *)

\* [{"name": f['name'], "id": f['id']} for f in files]
FileRefs(files) == [i \in 1..Len(files) |-> [name |-> files[i].name, id |-> files[i].id]]

\* AnalyzeFileUseCase.execute.  drv is what the Drive and the summarising
\* model do: "down" (no service or a failing call), "unreadable" (no content
\* could be read), "nosummary" (generate_content gives ""), "ok".
AnalyzeFile(folder_name, file_name, drv) ==
  LET Listed(folder, files) ==
        IF files = <<>>
        THEN [status  |-> "empty",
              summary |-> <<":folder:"," ","A"," ","p","a","s","t","a"," ","'">> \o folder.name \o <<"'"," ","e","s","t","a'"," ","v","a","z","i","a",".">>]
        ELSE [status      |-> "ok",
              summary     |-> IF drv = "unreadable"
                              THEN <<":page:"," ","E","n","c","o","n","t","r","e","i"," ","o"," ","a","r","q","u","i","v","o"," ","m","a","s"," ","n","a~","o"," ","c","o","n","s","e","g","u","i"," ","e","x","t","r","a","i","r"," ","o"," ","c","o","n","t","e","u'","d","o","."," ","O"," ","a","r","q","u","i","v","o"," ","p","o","d","e"," ","s","e","r"," ","u","m","a"," ","i","m","a","g","e","m",","," ","P","D","F"," ","c","o","m","p","l","e","x","o"," ","o","u"," ","f","o","r","m","a","t","o"," ","n","a~","o"," ","s","u","p","o","r","t","a","d","o",".">>
                              ELSE IF drv = "nosummary" THEN <<>> ELSE SummaryText,
              files       |-> FileRefs(files),
              folder_name |-> folder.name]
      Searched(sf) ==
        IF ~sf.found
        THEN [status  |-> "not_found",
              summary |-> <<":x:"," ","N","a~","o"," ","e","n","c","o","n","t","r","e","i"," ","n","e","n","h","u","m","a"," ","p","a","s","t","a"," ","c","o","m"," ","o"," ","n","o","m","e"," ","'">> \o folder_name \o <<"'",".">>]
        ELSE Listed(sf.folder, list_files_in_folder(sf.folder.id, drv # "down"))
  IN  Searched(search_folder(folder_name, drv # "down"))

\* AddExpenseUseCase.execute: [d, result]; to_float's ValueError gives status "error"
AddExpense(d, chat_id, amount_str, category, item) ==
  LET Converted(amount) ==
        IF ~amount.ok
        THEN [d |-> d,
              result |-> [status  |-> "error",
                          message |-> <<"E","r","r","o"," ","a","o"," ","c","o","n","v","e","r","t","e","r"," ","v","a","l","o","r",":"," ","N","a~","o"," ","f","o","i"," ","p","o","s","s","i'","v","e","l"," ","c","o","n","v","e","r","t","e","r"," ","'">>
                                      \o amount_str \o <<"'"," ","p","a","r","a"," ","n","u'","m","e","r","o">>]]
        ELSE [d |-> add_expense(d, chat_id, amount.val, category, item),
              result |-> [status |-> "created", amount |-> amount.val, category |-> category, item |-> item]]
  IN  Converted(to_float(amount_str))

\* "\n".join(["- " + item for item in items])
RECURSIVE BulletLines(_)
BulletLines(ts) ==
  IF ts = <<>> THEN <<>>
  ELSE <<"-"," ">> \o ts[1].item \o (IF Len(ts) > 1 THEN <<"NL">> ELSE <<>>) \o BulletLines(Tail(ts))

\* ListTasksUseCase.execute
ListTasks(d, chat_id) ==
  LET ts == get_tasks(d, chat_id)
  IN  IF ts # <<>> THEN <<":memo:"," ","NL">> \o BulletLines(ts) ELSE <<":check:"," ","N","a","d","a",".">>

\* a + b on floats
AddFloat(a, b) ==
  LET dec == IF a.dec > b.dec THEN a.dec ELSE b.dec
  IN  NormFloat([num |-> a.num * Pow10(dec - a.dec) + b.num * Pow10(dec - b.dec), dec |-> dec])

RECURSIVE SumAmounts(_)
SumAmounts(es) ==
  IF es = <<>> THEN [num |-> 0, dec |-> 0] ELSE AddFloat(es[1].amount, SumAmounts(Tail(es)))

\* the categories of es, in the order of their first expense (dict insertion order)
RECURSIVE CategoriesOf(_)
CategoriesOf(es) ==
  IF es = <<>> THEN <<>>
  ELSE LET rest == CategoriesOf(SubSeq(es, 1, Len(es) - 1))
           c    == es[Len(es)].category
       IN  IF \E i \in 1..Len(rest) : rest[i] = c THEN rest ELSE Append(rest, c)

RECURSIVE CategoryLines(_, _)
CategoryLines(cats, es) ==
  IF cats = <<>> THEN <<>>
  ELSE <<":bullet:"," ">> \o cats[1] \o <<":"," ","R","$"," ">>
       \o format_currency_br(SumAmounts(SelectSeq(es, LAMBDA e : e.category = cats[1])))
       \o <<"NL">> \o CategoryLines(Tail(cats), es)

RECURSIVE ItemLines(_)
ItemLines(es) ==
  IF es = <<>> THEN <<>>
  ELSE <<":bullet:"," ","R","$"," ">> \o format_currency_br(es[1].amount) \o <<" ","-"," ">> \o es[1].item \o <<"NL">>
       \o ItemLines(Tail(es))

MsgNada == <<":money:"," ","N","a","d","a",".">>

\* MonthlyReportUseCase.execute at the instant now: the dict it returns
MonthlyReportExecute(d, chat_id, now) ==
  LET start == Instant(YearOf(now), MonthOf(now), 0)
      end   == IF MonthOf(now) < 12 THEN Instant(YearOf(now), MonthOf(now) + 1, 0)
               ELSE Instant(YearOf(now) + 1, 1, 0)
      Summed(es) ==
        IF es = <<>>
        THEN [status |-> "ok", total |-> [num |-> 0, dec |-> 0], by_category |-> <<>>,
              formatted |-> MsgNada]
        ELSE [status      |-> "ok",
              total       |-> SumAmounts(es),
              by_category |-> [c \in {es[i].category : i \in 1..Len(es)} |->
                                 SumAmounts(SelectSeq(es, LAMBDA e : e.category = c))],
              formatted   |-> CategoryLines(CategoriesOf(es), es)
                              \o <<"NL",":chart:"," ","T","o","t","a","l",":"," ","R","$"," ">> \o format_currency_br(SumAmounts(es)) \o <<"NL">>
                              \o ItemLines(es)]
  IN  Summed(get_expenses(d, chat_id, start, end))

\* result.get("formatted", ...) of monthly_report_uc.execute(chat_id) in the webhook
MonthlyReport(d, chat_id) == MonthlyReportExecute(d, chat_id, Today).formatted

(* ---------------------------------------------------------------------- *)
(* app/routers/telegram.py: the webhook                                    *)
(* ---------------------------------------------------------------------- *)

\* TELEGRAM_TOKEN is set: send_telegram_message posts the message
TELEGRAM_TOKEN == TRUE

\* What a webhook call has done so far: the documents d, the calendar cal,
\* the messages posted to the platform, whether an exception reached the
\* handler's outer except, the number of mutating collaborator calls, the
\* status returned, the classifier adapter's answer if it was called, the
\* names given to search_folder, and the bounds given to list_events.
NewCtx(d, cal) ==
  [d |-> d, cal |-> cal, sent |-> <<>>, raised |-> FALSE, mutations |-> 0,
   status |-> "ok", ai |-> [called |-> FALSE], lookups |-> <<>>, listed |-> <<>>]

\* analyze_file_uc.execute(folder_name, ...) begins with drive.search_folder(folder_name)
Looked(c, folder_name) == [c EXCEPT !.lookups = Append(@, folder_name)]

\* send_telegram_message / send_quick_reply
send_telegram_message(c, text) ==
  IF TELEGRAM_TOKEN THEN [c EXCEPT !.sent = Append(@, text)] ELSE c

\* an exception propagates to `except Exception` of webhook: {"status": "error"}
Raise(c) == [c EXCEPT !.raised = TRUE, !.status = "error"]

\* The Firestore call named `call` raises in this webhook call (o.fault),
\* which it can only do when there is a client to call.
Fails(o, call) == dbConfigured /\ o.fault = call

\* limit of db.reset_history(chat_id, limit=50)
ResetLimit == 50

MsgMemoriaLimpa == <<":brain:"," ","M","e","m","o'","r","i","a"," ","l","i","m","p","a",".">>

\* text == "/reset"
CmdReset(c, ev, o) ==
  IF Fails(o, "reset_history") THEN Raise(c)
  ELSE [send_telegram_message([c EXCEPT !.d = reset_history(c.d, ev.chat, o.del)], MsgMemoriaLimpa)
          EXCEPT !.status = "reset"]

\* text == "/menu": send_inline_keyboard is not defined anywhere (NameError)
CmdMenu(c, ev, o) == Raise(c)

\* s.endswith(p)
EndsWith(s, p) == Len(s) >= Len(p) /\ SubSeq(s, Len(s) - Len(p) + 1, Len(s)) = p

\* s[-6:]
LastSix(s) == IF Len(s) <= 6 THEN s ELSE SubSeq(s, Len(s) - 5, Len(s))

\* list_events, lines 76-79: a bound with no 'Z' at its end and no '-' in
\* its last six characters gets the offset of Brazil
WithOffset(t) ==
  IF ~EndsWith(t, <<"Z">>) /\ ~Contains(LastSix(t), <<"-">>) THEN t \o <<"-","0","3",":","0","0">> ELSE t

\* the text is an RFC 3339 timestamp, which the Calendar API asks for in
\* timeMin and timeMax: date, time and a time zone offset
IsRfc3339(t) ==
  /\ Len(t) >= 20
  /\ \A i \in {1, 2, 3, 4, 6, 7, 9, 10, 12, 13, 15, 16, 18, 19} : IsDigit(t[i])
  /\ t[5] = "-" /\ t[8] = "-" /\ t[11] = "T" /\ t[14] = ":" /\ t[17] = ":"
  /\ \/ EndsWith(t, <<"Z">>)
     \/ LastSix(t)[1] \in {"+", "-"}

\* the date (YYYYMMDD) and the time of day (HHMMSS) of a timestamp; the
\* timestamps of the model all have the offset -03:00
DateTimeKey(t) ==
  << DigitsValue(SubSeq(t, 1, 4) \o SubSeq(t, 6, 7) \o SubSeq(t, 9, 10)),
     DigitsValue(SubSeq(t, 12, 13) \o SubSeq(t, 15, 16) \o SubSeq(t, 18, 19)) >>

Before(a, b) == a[1] < b[1] \/ (a[1] = b[1] /\ a[2] < b[2])

\* events().list(timeMin, timeMax, singleEvents, orderBy='startTime') on the
\* calendar cal: the events that end after timeMin and start before timeMax.
\* An event created without an end lasts one hour (create_event, lines 37-42).
EventsInRange(cal, time_min, time_max) ==
  LET Start(e) == DateTimeKey(e.start)
      End(e)   == IF e.end # <<>> THEN DateTimeKey(e.end)
                  ELSE <<DateTimeKey(e.start)[1], DateTimeKey(e.start)[2] + 10000>>
  IN  SelectSeq(cal, LAMBDA e : /\ Before(DateTimeKey(time_min), End(e))
                                /\ Before(Start(e), DateTimeKey(time_max)))

\* CalendarService.list_events.  Without a service the result is []; a bound
\* that is not a timestamp makes the API answer 400 Bad Request, which the
\* except branch turns into [] as well.
list_events(cal, time_min, time_max, calUp) ==
  LET Requested(tmin, tmax) ==
        IF ~(IsRfc3339(tmin) /\ IsRfc3339(tmax)) THEN <<>> ELSE EventsInRange(cal, tmin, tmax)
  IN  IF ~calUp THEN <<>> ELSE Requested(WithOffset(time_min), WithOffset(time_max))

\* list_events_uc.execute: the events of calendar.list_events
ListEvents(cal, time_min, time_max, calUp) == list_events(cal, time_min, time_max, calUp)

\* list_events_uc.execute(time_min, time_max) is called in a webhook call
ListedWith(c, time_min, time_max) ==
  [c EXCEPT !.listed = Append(@, [time_min |-> time_min, time_max |-> time_max])]

\* now.strftime("%Y-%m-%d") in the webhook calls of one behaviour
TodayDate == <<"2","0","2","6","-","1","2","-","0","1">>

\* now.strftime("%Y-%m-%dT00:00:00-03:00") and now.strftime("%Y-%m-%dT23:59:59-03:00")
TodayMin == TodayDate \o <<"T","0","0",":","0","0",":","0","0","-","0","3",":","0","0">>

TodayMax == TodayDate \o <<"T","2","3",":","5","9",":","5","9","-","0","3",":","0","0">>

\* text == "/resumo"
CmdResumo(c, ev, o) ==
  IF Fails(o, "use_case") THEN Raise(c)
  ELSE [send_telegram_message(ListedWith(c, TodayMin, TodayMax),
          <<":chart:"," ","*","*","R","e","s","u","m","o"," ","d","o"," ","D","i","a","*","*","NL","NL",":cal:"," ","E","v","e","n","t","o","s",":"," ">>
          \o DigitsOf(Len(ListEvents(c.cal, TodayMin, TodayMax, o.calUp)))
          \o <<"NL",":check:"," ","T","a","r","e","f","a","s",":"," ">> \o ListTasks(c.d, ev.chat)
          \o <<"NL",":bag:"," ">> \o MonthlyReport(c.d, ev.chat))
          EXCEPT !.status = "resumo"]

BotEmail == <<"b","o","t","@","j","a","r","v","i","s",".","i","a","m",".","g","s","e","r","v","i","c","e","a","c","c","o","u","n","t",".","c","o","m">>

\* "\n".join of one line per folder, for the first 5 folders
RECURSIVE FolderLines(_)
FolderLines(fs) ==
  IF fs = <<>> THEN <<>>
  ELSE <<" "," ",":bullet:"," ">> \o fs[1].name \o <<" ">> \o (IF Len(fs) > 1 THEN <<"NL">> ELSE <<>>) \o FolderLines(Tail(fs))

\* "\n".join of one line per file
RECURSIVE FileLines(_)
FileLines(fs) ==
  IF fs = <<>> THEN <<>>
  ELSE <<":page:"," ">> \o fs[1].name \o (IF Len(fs) > 1 THEN <<"NL">> ELSE <<>>) \o FileLines(Tail(fs))

\* the diagnostic message of /pasta for a folder that was not found
MsgPastaNotFound(folder_query, driveUp) ==
  <<":x:"," ","N","a~","o"," ","e","n","c","o","n","t","r","e","i"," ","a"," ","p","a","s","t","a"," ","'">> \o folder_query \o <<"'",".","NL","NL",":spy:",":vs16:"," ","*","*","D","i","a","g","n","o'","s","t","i","c","o",":","*","*","NL","E","m","a","i","l"," ","d","o"," ","b","o","t",":"," ","BQ">>
  \o BotEmail \o
  (IF driveUp
   THEN <<"BQ","NL","NL","U+1F4CB"," ","*","*","P","a","s","t","a","s"," ","q","u","e"," ","e","u"," ","c","o","n","s","i","g","o"," ","v","e","r"," ","(">> \o DigitsOf(Len(DriveFolders)) \o <<")",":","*","*","NL">>
        \o FolderLines(SubSeq(DriveFolders, 1, IF Len(DriveFolders) < 5 THEN Len(DriveFolders) ELSE 5))
        \o <<"NL","NL",":point:"," ","*","*","S","o","l","u","c,","a~","o",":","*","*","NL","1","."," ","V","a'"," ","n","o"," ","G","o","o","g","l","e"," ","D","r","i","v","e","NL","2","."," ","C","l","i","q","u","e"," ","n","a"," ","p","a","s","t","a"," ","'">> \o folder_query
        \o <<"'"," ","c","o","m"," ","b","o","t","a~","o"," ","d","i","r","e","i","t","o","NL","3","."," ","C","o","m","p","a","r","t","i","l","h","a","r"," ",">"," ","C","o","l","e"," ","o"," ","e","m","a","i","l"," ","a","c","i","m","a"," ","c","o","m","o"," ","*","*","E","d","i","t","o","r","*","*","NL","4","."," ","A","g","u","a","r","d","e"," ","a","l","g","u","n","s"," ","s","e","g","u","n","d","o","s"," ","e"," ","t","e","n","t","e"," ","n","o","v","a","m","e","n","t","e">>
   ELSE <<"BQ","NL","NL",":point:"," ","C","o","m","p","a","r","t","i","l","h","e"," ","a"," ","p","a","s","t","a"," ","c","o","m"," ","e","s","s","e"," ","e","m","a","i","l"," ","n","o"," ","G","o","o","g","l","e"," ","D","r","i","v","e",".">>)

\* text.startswith("/pasta") or text.startswith("/arquivos")
CmdPasta(c, ev, o) ==
  LET sp == {i \in 1..Len(ev.text) : ev.text[i] = " "}
      Listed(c1, result, files_text) ==
        LET Remembered(c3) ==
              IF Fails(o, "save_message_model") THEN Raise(c3)
              ELSE [c3 EXCEPT !.d = save_message(c3.d, ev.chat, "model",
                                      <<"L","i","s","t","e","i"," ","o","s"," ","a","r","q","u","i","v","o","s"," ","d","a"," ","p","a","s","t","a"," ">> \o result.folder_name \o <<":"," ">> \o files_text),
                              !.status = "folder_listed"]
            Shown(c2) ==
              Remembered([c2 EXCEPT !.d = save_last_folder_context(c2.d, ev.chat, result.folder_name, result.files)])
        IN  Shown(send_telegram_message(c1,
                    <<":folder:"," ","*","*","P","a","s","t","a",":"," ">> \o result.folder_name \o <<"*","*","NL","NL">> \o files_text
                    \o <<"NL","NL",":magr:"," ","*","*","O"," ","q","u","e"," ","v","o","c","e^"," ","q","u","e","r"," ","s","a","b","e","r"," ","s","o","b","r","e"," ","e","s","s","e","s"," ","a","r","q","u","i","v","o","s","?","*","*">>))
      Searched(folder_query, c1, result) ==
        IF result.status = "not_found"
        THEN [send_telegram_message(c1, MsgPastaNotFound(folder_query, o.drv # "down"))
                EXCEPT !.status = "folder_listed"]
        ELSE IF result.status = "empty"
        THEN [send_telegram_message(c1, result.summary) EXCEPT !.status = "folder_listed"]
        ELSE Listed(c1, result,
                    FileLines(SubSeq(result.files, 1, IF Len(result.files) < 10 THEN Len(result.files) ELSE 10)))
      Named(folder_query) ==
        Searched(folder_query,
                 Looked(send_telegram_message(c, <<":mag:"," ","P","r","o","c","u","r","a","n","d","o"," ","p","a","s","t","a"," ","'">> \o folder_query \o <<"'",".",".",".">>),
                        folder_query),
                 AnalyzeFile(folder_query, <<>>, o.drv))
  IN  IF sp = {}
      THEN [send_telegram_message(c, <<":folder:"," ","Q","u","a","l"," ","p","a","s","t","a","?"," ","D","i","g","i","t","e"," ","e","x",":"," ","/","p","a","s","t","a"," ","P","r","o","j","e","t","o"," ","B","e","t","a">>)
              EXCEPT !.status = "ask_name"]
      ELSE Named(SubSeq(ev.text, (CHOOSE i \in sp : \A j \in sp : i <= j) + 1, Len(ev.text)))

\* the texts handled before the anti-loop check (lines 153-253)
IsCommand(text) ==
  \/ text = <<"/","r","e","s","e","t">>
  \/ text = <<"/","m","e","n","u">>
  \/ text = <<"/","r","e","s","u","m","o">>
  \/ StartsWith(text, <<"/","p","a","s","t","a">>)
  \/ StartsWith(text, <<"/","a","r","q","u","i","v","o","s">>)

\* COMANDOS ESPECIAIS
Commands(c, ev, o) ==
  IF ev.text = <<"/","r","e","s","e","t">> THEN CmdReset(c, ev, o)
  ELSE IF ev.text = <<"/","m","e","n","u">> THEN CmdMenu(c, ev, o)
  ELSE IF ev.text = <<"/","r","e","s","u","m","o">> THEN CmdResumo(c, ev, o)
  ELSE CmdPasta(c, ev, o)

\* analysis_keywords
AnalysisKeywords ==
  {<<"r","e","s","u","m","o">>, <<"a","n","a","l","i","s","e">>, <<"a","n","a","l","i","s","a","r">>, <<"l","e","i","a">>, <<"o"," ","q","u","e"," ","t","r","a","t","a">>, <<"e","x","p","l","i","q","u","e">>, <<"r","e","s","u","m","a">>, <<"a","n","a","l","i","s","a">>}

\* the loop over context_files: does file f of the context match the text?
FileMentioned(f, text_lower) ==
  LET file_name_lower == Lower(f.name)
      words == SplitOn(RemoveSub(RemoveSub(file_name_lower, <<".","p","d","f">>), <<".","d","o","c">>), "_")
  IN  \/ Contains(text_lower, file_name_lower)
      \/ \E i \in 1..Len(words) : Len(words[i]) > 3 /\ Contains(text_lower, words[i])

\* file_name after the loop and the single-file rule (<<>> is None)
DetectFile(context_files, text_lower) ==
  LET SingleFileRule(found) ==
        IF found = <<>> /\ Len(context_files) = 1 THEN context_files[1].name ELSE found
      Looped(hits) ==
        SingleFileRule(IF hits = {} THEN <<>>
                       ELSE context_files[CHOOSE i \in hits : \A j \in hits : i <= j].name)
  IN  Looped({i \in 1..Len(context_files) : FileMentioned(context_files[i], text_lower)})

\* the analysis served from the stored folder context (lines 276-335)
ContextAnalysis(c, ev, o, context) ==
  LET folder_name == context.folder_name
      Saved(c2, file_name) ==
        IF Fails(o, "save_message_model")
        THEN send_telegram_message(c2, <<":x:"," ","E","r","r","o"," ","a","o"," ","a","n","a","l","i","s","a","r",":"," ">> \o <<"<","e","x","c","e","p","t","i","o","n",">">>)
        ELSE [c2 EXCEPT !.d = save_message(c2.d, ev.chat, "model",
                 (IF file_name # <<>> THEN <<"A","n","a","l","i","s","e","i"," ","a","r","q","u","i","v","o",":"," ">> \o file_name
                  ELSE <<"A","n","a","l","i","s","e","i"," ","p","a","s","t","a",":"," ">> \o folder_name))]
      Analyzed(c1, file_name, result) ==
        Saved(send_telegram_message(c1,
                IF result.status = "ok"
                THEN (IF result.summary # <<>> THEN result.summary
                      ELSE <<":x:"," ","N","a~","o"," ","c","o","n","s","e","g","u","i"," ","g","e","r","a","r"," ","o"," ","r","e","s","u","m","o","."," ","T","e","n","t","e"," ","n","o","v","a","m","e","n","t","e",".">>)
                ELSE IF result.status = "not_found"
                THEN <<":x:"," ","N","a~","o"," ","e","n","c","o","n","t","r","e","i"," ","a"," ","p","a","s","t","a"," ","'">> \o folder_name \o <<"'","."," ","U","s","e"," ","/","p","a","s","t","a"," ","<","n","o","m","e",">"," ","p","a","r","a"," ","l","i","s","t","a","r",".">>
                ELSE result.summary),
              file_name)
      Detected(file_name) ==
        Analyzed(Looked(send_telegram_message(c,
                          IF file_name # <<>> THEN <<":page:"," ","A","n","a","l","i","s","a","n","d","o"," ","a","r","q","u","i","v","o"," ","'">> \o file_name \o <<"'",".",".",".">>
                          ELSE <<":folder:"," ","A","n","a","l","i","s","a","n","d","o"," ","p","a","s","t","a"," ","'">> \o folder_name \o <<"'",".",".",".">>),
                        folder_name),
                 file_name,
                 AnalyzeFile(folder_name, file_name, o.drv))
      Done(c3) == [c3 EXCEPT !.status = "analyzed"]
  IN  Done(Detected(DetectFile(context.files, Strip(Lower(ev.text)))))

\* the replies that mark a failed classifier call for the expense fallback
ErrorReplies == {<<"E","r","r","o"," ","I","A",".">>, MsgInvalidJson, MsgAiError}

ExpenseWords == {<<"g","a","s","t","o">>, <<"d","e","s","p","e","s","a">>, <<"a","d","i","c","i","o","n","a","r">>, <<"g","a","s","t","e","i">>}

\* m = re.search(r'[\d.,]+\s*(.+)', text); m.group(1), or <<>> when m is None.
\* The text has a single line.  The first run of digits, dots and commas is
\* followed by the rest of the line; when nothing follows the run, the
\* match gives back its last white space or its last character.
ItemAfterAmount(text) ==
  LET isNum(ch) == IsDigit(ch) \/ ch \in {".", ","}
      starts == {i \in 1..Len(text) : isNum(text[i])}
  IN  IF starts = {} THEN <<>>
      ELSE
      LET i0   == CHOOSE i \in starts : \A j \in starts : i <= j
          ends == {j \in i0..Len(text) : \A k \in i0..j : isNum(text[k])}
          j0   == CHOOSE j \in ends : \A k \in ends : j >= k
          rest == SubSeq(text, j0 + 1, Len(text))
      IN  IF Strip(rest) # <<>>
          THEN SubSeq(rest, (CHOOSE i \in 1..Len(rest) : ~IsSpace(rest[i]) /\ \A k \in 1..(i - 1) : IsSpace(rest[k])), Len(rest))
          ELSE IF rest # <<>> THEN <<rest[Len(rest)]>>
          ELSE IF j0 > i0 THEN <<text[j0]>>
          ELSE <<>>

\* a create_event that reports success and inserts nothing
create_event_dropped(cal, title, start_iso, end_iso, description) == cal

\* CalendarService.create_event: the calendar after the call; the event is
\* inserted when the service is configured and the API call succeeds
create_event(cal, title, start_iso, end_iso, description) ==
  Append(cal, [summary |-> title, start |-> start_iso, end |-> end_iso, description |-> description])

\* datetime.fromisoformat accepts the text: YYYY-MM-DDTHH:MM:SS and an offset
IsIsoDateTime(t) ==
  /\ Len(t) >= 19
  /\ \A i \in {1, 2, 3, 4, 6, 7, 9, 10, 12, 13, 15, 16, 18, 19} : IsDigit(t[i])
  /\ t[5] = "-" /\ t[8] = "-" /\ t[11] = "T" /\ t[14] = ":" /\ t[17] = ":"

\* dt.strftime('%d/%m as %H:%M')
FormatStart(t) ==
  SubSeq(t, 9, 10) \o <<"/">> \o SubSeq(t, 6, 7) \o <<" ","a_","s"," ">> \o SubSeq(t, 12, 13) \o <<":">> \o SubSeq(t, 15, 16)

\* "\n".join(e.get('summary') for e in events)
RECURSIVE EventLines(_)
EventLines(es) ==
  IF es = <<>> THEN <<>>
  ELSE es[1].summary \o (IF Len(es) > 1 THEN <<"NL">> ELSE <<>>) \o EventLines(Tail(es))

MsgAgendaVazia == <<":cal:"," ","V","a","z","i","a",".">>

\* the closed vocabulary of intents the dispatcher has a branch for
Intents ==
  {"conversa", "agendar", "consultar_agenda", "add_task", "list_tasks", "complete_task",
   "add_expense", "finance_report", "analyze_project"}

MsgGasto(result) ==
  <<":money:"," ","G","a","s","t","o",":"," ","R","$"," ">> \o format_currency_br(result.amount) \o <<" ","-"," ">> \o result.item

\* The expense fallback for a failed classifier call (lines 355-368): the
\* context after it and the response text it produces (<<>> when none).
ExpenseFallback(c, ev, o, ai_response) ==
  LET is_erro == Get(ai_response, "response", <<>>) \in ErrorReplies
      Executed(r) ==
        [c |-> [c EXCEPT !.d = r.d, !.mutations = @ + 1], response_text |-> MsgGasto(r.result)]
      Matched(m) ==
        Executed(AddExpense(c.d, ev.chat, ev.text, <<"o","u","t","r","o","s">>, IF m # <<>> THEN m ELSE <<"g","a","s","t","o">>))
      Converted(amt) ==
        IF ~amt.ok THEN [c |-> Raise(c), response_text |-> <<>>]
        ELSE IF ~(amt.val.num > 0 /\ \E w \in ExpenseWords : Contains(Lower(ev.text), w))
        THEN [c |-> c, response_text |-> <<>>]
        ELSE IF Fails(o, "use_case") THEN [c |-> Raise(c), response_text |-> <<>>]
        ELSE Matched(Strip(ItemAfterAmount(ev.text)))
  IN  IF ~(is_erro /\ ev.text # <<>>) THEN [c |-> c, response_text |-> <<>>]
      ELSE Converted(to_float(ev.text))

\* The branch of the intent (lines 371-474): the context after it and the
\* response text.
IntentBranch(c, ev, o, ai_response) ==
  LET intent == Get(ai_response, "intent", "None")
      ret(cc, text) == [c |-> cc, response_text |-> text]
      Completed(r) ==
        ret([c EXCEPT !.d = r.d, !.mutations = @ + (IF r.ok THEN 1 ELSE 0)],
            IF r.ok THEN <<":check:"," ","F","e","i","t","o",".">> ELSE <<":mag:"," ","N","a~","o"," ","a","c","h","e","i",".">>)
      Spent(r) ==
        IF r.result.status = "created"
        THEN ret([c EXCEPT !.d = r.d, !.mutations = @ + 1], MsgGasto(r.result))
        ELSE ret(c, <<":x:"," ">> \o r.result.message)
      Analyzed(c1, folder_name, result) ==
        ret(c1, IF result.status = "not_found"
                THEN <<":x:"," ","N","a~","o"," ","e","n","c","o","n","t","r","e","i"," ","a"," ","p","a","s","t","a"," ","'">> \o folder_name \o <<"'","."," ","U","s","e"," ","/","p","a","s","t","a"," ","<","n","o","m","e",">"," ","p","a","r","a"," ","l","i","s","t","a","r",".">>
                ELSE result.summary)
      Resolved(folder_name, file_name) ==
        IF folder_name = <<>>
        THEN ret(c, <<":folder:"," ","Q","u","a","l"," ","p","a","s","t","a"," ","v","o","c","e^"," ","q","u","e","r"," ","a","n","a","l","i","s","a","r","?"," ","U","s","e"," ","/","p","a","s","t","a"," ","<","n","o","m","e",">"," ","p","a","r","a"," ","l","i","s","t","a","r"," ","p","r","i","m","e","i","r","o",".">>)
        ELSE Analyzed(Looked(send_telegram_message(c,
                               IF file_name # <<>> THEN <<":page:"," ","A","n","a","l","i","s","a","n","d","o"," ","a","r","q","u","i","v","o"," ","'">> \o file_name \o <<"'",".",".",".">>
                               ELSE <<":folder:"," ","A","n","a","l","i","s","a","n","d","o"," ","p","a","s","t","a"," ","'">> \o folder_name \o <<"'",".",".",".">>),
                             folder_name),
                      folder_name,
                      AnalyzeFile(folder_name, file_name, o.drv))
      Mentioned(context, file0, hits) ==
        IF hits # {} THEN context.files[CHOOSE i \in hits : \A j \in hits : i <= j].name ELSE file0
      Remembered(folder0, file0, context) ==
        Resolved(IF context.found THEN context.folder_name ELSE folder0,
                 Mentioned(context, file0,
                           IF context.found /\ file0 = <<>>
                           THEN {i \in 1..Len(context.files) :
                                   Contains(Lower(ev.text), Lower(context.files[i].name))}
                           ELSE {}))
      Requested(folder0, file0) ==
        Remembered(folder0, file0,
                   IF folder0 = <<>> THEN get_last_folder_context(c.d, ev.chat) ELSE [found |-> FALSE])
  IN  CASE intent = "conversa" -> ret(c, Get(ai_response, "response", <<>>))
      [] intent = "agendar" ->
           LET title       == Get(ai_response, "title", <<>>)
               start_iso   == Get(ai_response, "start_iso", <<>>)
               end_iso     == Get(ai_response, "end_iso", <<>>)
               description == Get(ai_response, "description", <<>>)
           IN  IF title = <<>> \/ start_iso = <<>>
               THEN ret(c, <<":x:"," ","N","a~","o"," ","c","o","n","s","e","g","u","i"," ","e","n","t","e","n","d","e","r"," ","a"," ","d","a","t","a","/","h","o","r","a","."," ","E","x",":"," ","'","L","e","m","b","r","a","r"," ","a","m","a","n","h","a~"," ","8","h"," ","c","o","l","o","c","a","r"," ","c","o","m","i","d","a","'">>)
               ELSE IF ~o.calUp
               THEN ret([c EXCEPT !.mutations = @ + 1], <<":x:"," ","E","r","r","o"," ","a","o"," ","a","g","e","n","d","a","r","."," ","V","e","r","i","f","i","q","u","e"," ","a"," ","d","a","t","a","/","h","o","r","a"," ","i","n","f","o","r","m","a","d","a",".">>)
               ELSE ret([c EXCEPT !.cal = create_event(c.cal, title, start_iso, end_iso, description),
                                  !.mutations = @ + 1],
                        IF IsIsoDateTime(start_iso)
                        THEN <<":check:"," ","L","e","m","b","r","e","t","e"," ","a","g","e","n","d","a","d","o","!","NL","NL",":cal:"," ">> \o title \o <<"NL",":clock:"," ">> \o FormatStart(start_iso)
                             \o (IF description # <<>> THEN <<"NL",":memo:"," ">> \o description ELSE <<>>)
                        ELSE <<":check:"," ","L","e","m","b","r","e","t","e"," ","a","g","e","n","d","a","d","o",":"," ">> \o title)
      [] intent = "consultar_agenda" ->
           LET time_min == Get(ai_response, "time_min", <<>>)
               time_max == Get(ai_response, "time_max", <<>>)
               events   == ListEvents(c.cal, time_min, time_max, o.calUp)
           IN  ret(ListedWith(c, time_min, time_max),
                   IF events # <<>> THEN <<":cal:"," ">> \o EventLines(events) ELSE MsgAgendaVazia)
      [] intent = "add_task" ->
           IF Fails(o, "use_case") THEN ret(Raise(c), <<>>)
           ELSE ret([c EXCEPT !.d = add_task(c.d, ev.chat, Get(ai_response, "item", <<>>), o.pos),
                              !.mutations = @ + 1],
                    <<":memo:"," ","A","d","d",":"," ">> \o Get(ai_response, "item", <<>>))
      [] intent = "list_tasks" ->
           IF Fails(o, "use_case") THEN ret(Raise(c), <<>>)
           ELSE ret(c, ListTasks(c.d, ev.chat))
      [] intent = "complete_task" ->
           IF Fails(o, "use_case") THEN ret(Raise(c), <<>>)
           ELSE Completed(complete_task(c.d, ev.chat, Get(ai_response, "item", <<>>)))
      [] intent = "add_expense" ->
           IF Fails(o, "use_case") /\ to_float(ev.text).ok THEN ret(Raise(c), <<>>)
           ELSE Spent(AddExpense(c.d, ev.chat, ev.text, Get(ai_response, "category", <<"o","u","t","r","o","s">>),
                                 Get(ai_response, "item", <<>>)))
      [] intent = "finance_report" ->
           IF Fails(o, "use_case") THEN ret(Raise(c), <<>>)
           ELSE ret(c, MonthlyReport(c.d, ev.chat))
      [] intent = "analyze_project" ->
           Requested(Get(ai_response, "folder", <<>>), Get(ai_response, "file", <<>>))
      [] OTHER -> ret(c, <<>>)

\* EXECUCAO DE ACOES (lines 351-480), for the adapter's answer ai_response
Dispatch(c, ev, o, ai_response) ==
  LET intent == Get(ai_response, "intent", "None")
      Sent(c1, response_text) ==
        IF intent \in {"consultar_agenda", "list_tasks", "analyze_project"} THEN c1
        ELSE IF Fails(o, "save_message_model") THEN Raise(c1)
        ELSE [c1 EXCEPT !.d = save_message(c1.d, ev.chat, "model", response_text)]
      Answered(br) ==
        IF br.c.raised \/ br.response_text = <<>> THEN br.c
        ELSE Sent(send_telegram_message(br.c, br.response_text), br.response_text)
      Branch(fb) ==
        IF fb.c.raised \/ fb.response_text # <<>> THEN fb ELSE IntentBranch(fb.c, ev, o, ai_response)
  IN  Answered(Branch(ExpenseFallback(c, ev, o, ai_response)))

\* PROCESSAMENTO of a text message (lines 263-338) and the dispatch
ProcessText(c, ev, o) ==
  LET Classified(c1, r) ==
        Dispatch([c1 EXCEPT !.ai = [called |-> TRUE, gen |-> o.gen, data |-> r.data]], ev, o, r.data)
      Stored(c1, context) ==
        IF context.found THEN ContextAnalysis(c1, ev, o, context)
        ELSE IF Fails(o, "get_history") THEN Raise(c1)
        ELSE Classified(c1, chat(ev.text, FALSE, o.gen))
      Saved(c1, is_analysis_request) ==
        Stored(c1, IF is_analysis_request THEN get_last_folder_context(c1.d, ev.chat) ELSE [found |-> FALSE])
  IN  IF Fails(o, "save_message_user") THEN Raise(c)
      ELSE Saved([c EXCEPT !.d = save_message(c.d, ev.chat, "user", ev.text)],
                 \E kw \in AnalysisKeywords : Contains(Strip(Lower(ev.text)), kw))

\* PROCESSAMENTO of a voice message (lines 340-348) and the dispatch.
\* o.voice: "no_file" (download_voice gives None), "upload_fails"
\* (genai.upload_file raises), "ok".
ProcessVoice(c, ev, o) ==
  LET Classified(c2, r) ==
        IF o.voice = "upload_fails" \/ Fails(o, "get_history") THEN Raise(c2)
        ELSE IF r.raised
        THEN Raise([c2 EXCEPT !.ai = [called |-> TRUE, gen |-> o.gen, data |-> [raised |-> TRUE]]])
        ELSE Dispatch([c2 EXCEPT !.ai = [called |-> TRUE, gen |-> o.gen, data |-> r.data]], ev, o, r.data)
      Saved(c1) ==
        IF o.voice = "no_file" THEN c1
        ELSE Classified(send_telegram_message(c1, <<":phones:",".",".",".">>), chat(ev.text, TRUE, o.gen))
  IN  IF Fails(o, "save_message_user") THEN Raise(c)
      ELSE Saved([c EXCEPT !.d = save_message(c.d, ev.chat, "user", <<"[","A","u","d","i","o","]">>)])

\* the webhook after the anti-loop check
Process(c, ev, o) == IF ev.voice THEN ProcessVoice(c, ev, o) ELSE ProcessText(c, ev, o)

(* ---------------------------------------------------------------------- *)
(* What the collaborators may do in one webhook call                       *)
(* ---------------------------------------------------------------------- *)

Json(data) == [kind |-> "json", data |-> data]

\* what generate_content may return for the classification prompt of a text:
\* a JSON object, text that is not JSON ("invalid_json"), or an exception
Classifier(text) ==
  CASE text = <<"O","i">> ->
         { [kind |-> "invalid_json"], [kind |-> "error"],
           Json([intent |-> "conversa", response |-> <<"o","i">>]),
           Json([intent |-> "conversa", response |-> <<" "," ">>]),
           Json([intent |-> "conversa", response |-> <<"P","o","s","s","o"," ","a","n","o","t","a","r"," ","i","s","s","o",".">>]),
           Json([intent |-> "conversa", response |-> <<"E","r","r","o"," ","I","A",".">>]),
           Json([intent |-> "tocar_musica", response |-> <<"T","o","c","a","n","d","o",".">>]),
           Json([response |-> <<"P","o","s","s","o"," ","a","n","o","t","a","r"," ","i","s","s","o",".">>]) }
    [] text = <<"g","a","s","t","o"," ","0">> ->
         { [kind |-> "invalid_json"],
           Json([intent |-> "add_expense", amount |-> <<"0">>, item |-> <<"g","a","s","t","o">>]) }
    [] text = <<"G","a","s","t","e","i"," ","5",",","5","0"," ","u","b","e","r">> ->
         { [kind |-> "invalid_json"], [kind |-> "error"],
           Json([intent |-> "add_expense", amount |-> <<"5",",","5","0">>, item |-> <<"u","b","e","r">>]),
           Json([intent |-> "add_expense", amount |-> <<"5","5",",","0","0">>, item |-> <<"u","b","e","r">>, category |-> <<"t","r","a","n","s","p","o","r","t","e">>]),
           Json([intent |-> "finance_report"]) }
    [] text = <<"E","n","t","e","n","d","i","."," ","C","o","m","o"," ","p","o","s","s","o"," ","a","j","u","d","a","r","?">> ->
         { Json([intent |-> "conversa", response |-> <<"e","n","t","e","n","d","i","."," ","c","o","m","o"," ","p","o","s","s","o"," ","a","j","u","d","a","r","?"," ">>]),
           Json([intent |-> "conversa", response |-> <<>>]),
           Json([intent |-> "conversa", response |-> <<"P","o","s","s","o"," ","a","n","o","t","a","r"," ","i","s","s","o",".">>]) }
    [] text = <<>> ->
         { [kind |-> "error"],
           Json([intent |-> "conversa", response |-> <<>>]),
           Json([intent |-> "add_task", item |-> <<"P","a","g","a","r"," ","l","u","z">>]) }
    [] text = <<"l","e","m","b","r","a","r"," ","d","e"," ","p","a","g","a","r"," ","l","u","z">> ->
         { [kind |-> "invalid_json"],
           Json([intent |-> "agendar", title |-> <<"P","a","g","a","r"," ","l","u","z">>,
                 start_iso |-> <<"2","0","2","6","-","1","2","-","0","1","T","1","0",":","0","0",":","0","0","-","0","3",":","0","0">>, end_iso |-> <<>>]),
           Json([intent |-> "agendar", title |-> <<"P","a","g","a","r"," ","l","u","z">>, start_iso |-> <<>>]),
           Json([intent |-> "consultar_agenda", time_min |-> <<>>, time_max |-> <<>>]),
           Json([intent |-> "consultar_agenda", time_min |-> <<"2","0","2","6","-","1","2","-","0","1","T","0","0",":","0","0",":","0","0">>,
                 time_max |-> <<"2","0","2","6","-","1","2","-","0","1","T","2","3",":","5","9",":","5","9","-","0","3",":","0","0">>]),
           Json([intent |-> "add_task", item |-> <<"P","a","g","a","r"," ","l","u","z">>]),
           Json([intent |-> "list_tasks"]),
           Json([intent |-> "complete_task", item |-> <<"L","U","Z">>]),
           Json([intent |-> "complete_task", item |-> <<>>]),
           Json([intent |-> "complete_task"]) }
    [] text = <<"a","n","a","l","i","s","a","r"," ","n","o","t","a","s",".","t","x","t">> ->
         { Json([intent |-> "analyze_project", folder |-> <<>>, file |-> <<>>]),
           Json([intent |-> "analyze_project", folder |-> <<"b","e","t","a">>]) }
    [] text = <<"r","e","s","u","m","o"," ","d","a"," ","p","a","s","t","a"," ","V","a","z","i","a">> ->
         { Json([intent |-> "analyze_project", folder |-> <<"V","a","z","i","a">>]) }
    [] OTHER ->
         { Json([intent |-> "conversa", response |-> <<"P","o","s","s","o"," ","a","n","o","t","a","r"," ","i","s","s","o",".">>]),
           Json([intent |-> "add_expense", amount |-> <<"1","0",",","0","0">>, item |-> <<"c","a","f","e">>]),
           Json([intent |-> "add_task", item |-> <<"P","a","g","a","r"," ","l","u","z">>]) }

\* the Firestore call of a webhook call that raises, if any
Faults ==
  IF dbConfigured
  THEN {"none", "reset_history", "save_message_user", "get_history", "use_case", "save_message_model"}
  ELSE {"none"}

DrvOutcomes == {"down", "unreadable", "nosummary", "ok"}

VoiceOutcomes == {"no_file", "upload_fails", "ok"}

Oracle(fault, gen, calUp, drv, voice, del, pos) ==
  [fault |-> fault, gen |-> gen, calUp |-> calUp, drv |-> drv, voice |-> voice, del |-> del, pos |-> pos]

\* the collaborators' behaviours that a call for the command ev can meet
CommandOracles(ev) ==
  IF ev.text = <<"/","r","e","s","e","t">>
  THEN {Oracle(f, [kind |-> "error"], TRUE, "ok", "ok", del, 0) :
          f \in Faults \cap {"none", "reset_history"},
          del \in LimitChoices(db.mensagens[ensure_string_id(ev.chat)], ResetLimit)}
  ELSE IF ev.text = <<"/","r","e","s","u","m","o">>
  THEN {Oracle(f, [kind |-> "error"], cu, "ok", "ok", {}, 0) :
          f \in Faults \cap {"none", "use_case"}, cu \in BOOLEAN}
  ELSE {Oracle(f, [kind |-> "error"], TRUE, dv, "ok", {}, 0) :
          f \in Faults \cap {"none", "save_message_model"}, dv \in DrvOutcomes}

\* the collaborators a classified message reaches, by the classifier's answer
UsesCalendar(g) == g.kind = "invalid_json" \/ (g.kind = "json" /\ Get(g.data, "intent", "None") \in {"agendar", "consultar_agenda"})

AddsTask(g) == g.kind = "json" /\ Get(g.data, "intent", "None") = "add_task"

UsesDrive(ev, g) ==
  \/ \E kw \in AnalysisKeywords : Contains(Strip(Lower(ev.text)), kw)
  \/ g.kind = "json" /\ Get(g.data, "intent", "None") = "analyze_project"

\* The collaborators' behaviours that a call for the message ev can meet.
\* save_message of the user's turn and get_history come before the classifier
\* call: when one of them raises, the classifier is not called.
MessageOracles(ev) ==
  UNION { {Oracle(f, g, cu, dv, "ok", {}, ps) :
             f  \in Faults \cap {"none", "use_case", "save_message_model"},
             cu \in (IF UsesCalendar(g) THEN BOOLEAN ELSE {TRUE}),
             dv \in (IF UsesDrive(ev, g) THEN DrvOutcomes ELSE {"ok"}),
             ps \in (IF AddsTask(g) THEN 0..Len(db.tasks[ensure_string_id(ev.chat)]) ELSE {0})} :
          g \in Classifier(ev.text) }
  \cup {Oracle(f, [kind |-> "error"], TRUE, "ok", "ok", {}, 0) :
          f \in Faults \cap {"save_message_user", "get_history"}}
  \cup (IF ev.voice
        THEN {Oracle("none", [kind |-> "error"], TRUE, "ok", v, {}, 0) : v \in VoiceOutcomes \ {"ok"}}
        ELSE {})

(* ---------------------------------------------------------------------- *)
(* The state machine                                                       *)
(* ---------------------------------------------------------------------- *)

Slots == 1..MaxInFlight

Idle == [pc |-> "idle"]

NoCall ==
  [chat |-> 0, msg_id |-> 0, text |-> <<>>, voice |-> FALSE, redelivery |-> FALSE, late |-> FALSE,
   chat_passed |-> FALSE, guard |-> "none", status |-> "none", sent |-> <<>>, mutations |-> 0, wrote |-> FALSE,
   fault |-> "none", ai |-> [called |-> FALSE], lookups |-> <<>>, listed |-> <<>>]

\* The record of a returned webhook call.  redelivery: a call for the event had
\* returned, without an error, when this one began; late: the anti-loop check
\* had returned False for the event when this one began; chat_passed: it had
\* returned False for an event of the same chat.
Returned(ev, when, guard, c, wrote, fault) ==
  [chat |-> ev.chat, msg_id |-> ev.msg_id, text |-> ev.text, voice |-> ev.voice,
   redelivery |-> when.redelivery, late |-> when.late, chat_passed |-> when.chat_passed,
   guard |-> guard, status |-> c.status, sent |-> c.sent,
   mutations |-> c.mutations, wrote |-> wrote, fault |-> fault, ai |-> c.ai, lookups |-> c.lookups,
   listed |-> c.listed]

NoProbe == [fn |-> "none", done |-> TRUE]

EmptyDb ==
  [processed_ids |-> [k \in MarkerKeys |-> 0],
   mensagens     |-> [c \in ChatKeys |-> <<>>],
   tasks         |-> [c \in ChatKeys |-> <<>>],
   expenses      |-> [c \in ChatKeys |-> <<>>],
   chats         |-> [c \in ChatKeys |-> [last_folder_name |-> <<>>, last_folder_files |-> <<>>]]]

Init ==
  /\ dbConfigured \in BOOLEAN
  /\ aiConfigured \in BOOLEAN
  /\ db = EmptyDb
  /\ calendar = <<>>
  /\ deliv = [s \in Slots |-> Idle]
  /\ delivered = 0
  /\ passes = [k \in MarkerKeys |-> 0]
  /\ handled = {}
  /\ last = NoCall
  /\ probe = NoProbe

EventKey(ev) == MarkerKey(ev.chat, ev.msg_id)

\* what has happened to the event ev when a call for it begins
Arrival(ev) ==
  [redelivery  |-> EventKey(ev) \in handled,
   late        |-> passes[EventKey(ev)] > 0,
   chat_passed |-> \E k \in MarkerKeys : k[1] = ensure_string_id(ev.chat) /\ passes[k] > 0]

\* a call returns: its record replaces `last`
Return(ev, when, guard, c, fault) ==
  /\ last' = Returned(ev, when, guard, c, c.d # db \/ c.cal # calendar, fault)
  /\ handled' = IF c.status = "error" THEN handled ELSE handled \cup {EventKey(ev)}
  /\ db' = c.d
  /\ calendar' = c.cal

\* webhook for a command: it is handled before the anti-loop check
ReceiveCommand(ev) ==
  /\ delivered < MaxDeliveries
  /\ IsCommand(ev.text)
  /\ \E o \in CommandOracles(ev) :
       Return(ev, Arrival(ev), "none", Commands(NewCtx(db, calendar), ev, o), o.fault)
  /\ delivered' = delivered + 1
  /\ UNCHANGED <<probe, dbConfigured, aiConfigured, deliv, passes>>

\* webhook for any other message, up to the anti-loop check
ReceiveMessage(ev) ==
  /\ delivered < MaxDeliveries
  /\ ~IsCommand(ev.text)
  /\ \E s \in Slots :
       /\ deliv[s] = Idle
       /\ \A t \in Slots : t < s => deliv[t] # Idle
       /\ deliv' = [deliv EXCEPT ![s] = [pc |-> "guard_get", ev |-> ev, when |-> Arrival(ev)]]
  /\ delivered' = delivered + 1
  /\ UNCHANGED <<probe, dbConfigured, aiConfigured, db, calendar, passes, handled, last>>

\* is_message_processed, up to doc_ref.get(): the read of the marker
GuardGet(s) ==
  LET ev == deliv[s].ev
      c  == NewCtx(db, calendar)
  IN  /\ deliv[s].pc = "guard_get"
      /\ IF ~(ev.msg_id # 0 /\ dbConfigured)
         THEN \* no client: return False
              /\ deliv' = [deliv EXCEPT ![s].pc = "process"]
              /\ passes' = [passes EXCEPT ![EventKey(ev)] = @ + 1]
              /\ UNCHANGED <<db, calendar, handled, last>>
         ELSE \E readOk \in BOOLEAN :
                IF ~readOk
                THEN \* the read raises: webhook's except
                     /\ Return(ev, deliv[s].when, "raised", Raise(c), "none")
                     /\ deliv' = [deliv EXCEPT ![s] = Idle]
                     /\ UNCHANGED passes
                ELSE IF MarkerExists(db, ev.chat, ev.msg_id)
                THEN \* return True: {"status": "ignored"}
                     /\ Return(ev, deliv[s].when, "true", [c EXCEPT !.status = "ignored"], "none")
                     /\ deliv' = [deliv EXCEPT ![s] = Idle]
                     /\ UNCHANGED passes
                ELSE /\ deliv' = [deliv EXCEPT ![s].pc = "guard_set"]
                     /\ UNCHANGED <<db, calendar, passes, handled, last>>
      /\ UNCHANGED <<probe, dbConfigured, aiConfigured, delivered>>

\* is_message_processed, doc_ref.set() and return False
GuardSet(s) ==
  LET ev == deliv[s].ev
  IN  /\ deliv[s].pc = "guard_set"
      /\ \E writeOk \in BOOLEAN :
           IF ~writeOk
           THEN /\ Return(ev, deliv[s].when, "raised", Raise(NewCtx(db, calendar)), "none")
                /\ deliv' = [deliv EXCEPT ![s] = Idle]
                /\ UNCHANGED passes
           ELSE /\ db' = MarkerSet(db, ev.chat, ev.msg_id)
                /\ passes' = [passes EXCEPT ![EventKey(ev)] = @ + 1]
                /\ deliv' = [deliv EXCEPT ![s].pc = "process"]
                /\ UNCHANGED <<calendar, handled, last>>
      /\ UNCHANGED <<probe, dbConfigured, aiConfigured, delivered>>

\* webhook after the anti-loop check returned False
Handle(s) ==
  LET ev == deliv[s].ev
  IN  /\ deliv[s].pc = "process"
      /\ \E o \in MessageOracles(ev) :
           Return(ev, deliv[s].when, "false", Process(NewCtx(db, calendar), ev, o), o.fault)
      /\ deliv' = [deliv EXCEPT ![s] = Idle]
      /\ UNCHANGED <<probe, dbConfigured, aiConfigured, delivered, passes>>

Next ==
  \/ \E ev \in Events : ReceiveCommand(ev)
  \/ \E ev \in Events : ReceiveMessage(ev)
  \/ \E s \in Slots : GuardGet(s)
  \/ \E s \in Slots : GuardSet(s)
  \/ \E s \in Slots : Handle(s)

Spec == Init /\ [][Next]_vars

\* Sequential use: a webhook call begins only when no other call is in progress.
NoCallInProgress == \A s \in Slots : deliv[s] = Idle

ReceiveCommandSeq(ev) == NoCallInProgress /\ ReceiveCommand(ev)

ReceiveMessageSeq(ev) == NoCallInProgress /\ ReceiveMessage(ev)

NextSeq ==
  \/ \E ev \in Events : ReceiveCommandSeq(ev)
  \/ \E ev \in Events : ReceiveMessageSeq(ev)
  \/ \E s \in Slots : GuardGet(s)
  \/ \E s \in Slots : GuardSet(s)
  \/ \E s \in Slots : Handle(s)

SpecSeq == Init /\ [][NextSeq]_vars

\* Task lists a chat can hold when a call begins, in the store's document
\* order: none; or four tasks left by earlier add_task and complete_task calls.
SeededTasks ==
  << [item |-> <<"P","a","g","a","r"," ","L","U","Z">>,    status |-> "concluido"],
     [item |-> <<"C","o","m","p","r","a","r"," ","p","a","o">>,  status |-> "pendente"],
     [item |-> <<"C","o","n","t","a"," ","d","e"," ","L","u","z">>, status |-> "pendente"],
     [item |-> <<"P","a","g","a","r"," ","l","u","z">>,    status |-> "pendente"] >>

TaskSeeds == {<<>>, SeededTasks}

\* the webhook on a store that already holds tasks of chat 7
InitTasks ==
  /\ dbConfigured = TRUE
  /\ aiConfigured = TRUE
  /\ \E ts \in TaskSeeds : db = [EmptyDb EXCEPT !.tasks[ensure_string_id(7)] = ts]
  /\ calendar = <<>>
  /\ deliv = [s \in Slots |-> Idle]
  /\ delivered = 0
  /\ passes = [k \in MarkerKeys |-> 0]
  /\ handled = {}
  /\ last = NoCall
  /\ probe = NoProbe

\* the messages that the classifier may tag list_tasks or complete_task
ReceiveTaskMessage(ev) ==
  /\ \E g \in Classifier(ev.text) :
       g.kind = "json" /\ Get(g.data, "intent", "None") \in {"list_tasks", "complete_task"}
  /\ ReceiveMessage(ev)

NextTasks ==
  \/ \E ev \in Events : ReceiveTaskMessage(ev)
  \/ \E s \in Slots : GuardGet(s)
  \/ \E s \in Slots : GuardSet(s)
  \/ \E s \in Slots : Handle(s)

SpecTasks == InitTasks /\ [][NextTasks]_vars

\* the /reset command
ReceiveResetCommand(ev) == ev.text = <<"/","r","e","s","e","t">> /\ ReceiveCommand(ev)

\* the task messages and /reset on a store that already holds tasks of chat 7
NextLifecycle ==
  \/ \E ev \in Events : ReceiveTaskMessage(ev)
  \/ \E ev \in Events : ReceiveResetCommand(ev)
  \/ \E s \in Slots : GuardGet(s)
  \/ \E s \in Slots : GuardSet(s)
  \/ \E s \in Slots : Handle(s)

SpecLifecycle == InitTasks /\ [][NextLifecycle]_vars

(* ---------------------------------------------------------------------- *)
(* The folder resolvers on their own                                       *)
(* ---------------------------------------------------------------------- *)

\* folders in a catalog
MaxFolders == 3

\* pages in which the API returns a catalog
MaxPages == 3

FolderNames == {<<"P","r","o","j","e","t","o"," ","B","e","t","a">>, <<"B","e","t","a"," ">>, <<"A","l","f","a">>, <<"C","a","i","x","a"," ","d","'","A","g","u","a">>}

FolderQueries == {<<"p","r","o","j","e","t","o"," ","b","e","t","a">>, <<" ","B","E","T","A">>, <<"P","r","o","j","e","t","o"," ","B","e","t","a">>, <<"C","a","i","x","a"," ","d","'","A","g","u","a">>, <<"g","a","m","a">>}

\* the folders named flat[1], flat[2], ..., with their ids
FolderEntries(flat) == [i \in 1..Len(flat) |-> [id |-> DigitsOf(i), name |-> flat[i]]]

\* the entries cut into pages of the given sizes
RECURSIVE Paged(_, _)
Paged(entries, sizes) ==
  IF sizes = <<>> THEN <<>>
  ELSE <<SubSeq(entries, 1, sizes[1])>>
       \o Paged(SubSeq(entries, sizes[1] + 1, Len(entries)), Tail(sizes))

RECURSIVE SumSeq(_)
SumSeq(sizes) == IF sizes = <<>> THEN 0 ELSE sizes[1] + SumSeq(Tail(sizes))

\* The catalogs: up to MaxFolders folders, returned in up to MaxPages pages.
\* A page may hold fewer entries than asked for, and none at all.
Catalogs ==
  {Paged(FolderEntries(flat), sizes) :
     <<flat, sizes>> \in
       {fs \in (UNION {[1..n -> FolderNames] : n \in 0..MaxFolders})
                \X (UNION {[1..k -> 0..MaxFolders] : k \in 1..MaxPages}) :
          SumSeq(fs[2]) = Len(fs[1])}}

\* all the entries of a catalog, in catalog order
RECURSIVE Flatten(_)
Flatten(pages) == IF pages = <<>> THEN <<>> ELSE pages[1] \o Flatten(Tail(pages))

InitResolve ==
  /\ dbConfigured = TRUE
  /\ aiConfigured = TRUE
  /\ db = EmptyDb
  /\ calendar = <<>>
  /\ deliv = [s \in Slots |-> Idle]
  /\ delivered = 0
  /\ passes = [k \in MarkerKeys |-> 0]
  /\ handled = {}
  /\ last = NoCall
  /\ \E pages \in Catalogs, q \in FolderQueries, fn \in {"search_folder", "find_folder"} :
       probe = [fn |-> fn, done |-> FALSE, pages |-> pages, query |-> q]

\* DriveService.search_folder (app/services/drive_service.py) is called
SearchFolderCall ==
  /\ probe.fn = "search_folder" /\ ~probe.done
  /\ probe' = [fn |-> probe.fn, done |-> TRUE, pages |-> probe.pages, query |-> probe.query,
                result |-> search_folder_in(probe.pages, probe.query, TRUE),
                reads  |-> ListCalls(probe.pages, 0)]
  /\ UNCHANGED webhook

\* DriveService.find_folder (app/main.py) is called
FindFolderCall ==
  /\ probe.fn = "find_folder" /\ ~probe.done
  /\ probe' = [fn |-> probe.fn, done |-> TRUE, pages |-> probe.pages, query |-> probe.query,
                result |-> find_folder(probe.pages, probe.query),
                reads  |-> 1]
  /\ UNCHANGED webhook

NextResolve == SearchFolderCall \/ FindFolderCall

SpecResolve == InitResolve /\ [][NextResolve]_vars

(* ---------------------------------------------------------------------- *)
(* get_history on its own                                                  *)
(* ---------------------------------------------------------------------- *)

\* turns stored for a chat when get_history is called
MaxTurns == 8

\* The n turns that earlier webhook calls have appended for a chat: a user
\* turn (line 264) and the model turn that answers it (line 480), in turn.
SeededTurns(n) ==
  [i \in 1..n |-> [role    |-> IF i % 2 = 1 THEN "user" ELSE "model",
                   content |-> <<"m">> \o DigitsOf(i)]]

\* the turns of another chat
OtherTurns == << [role |-> "user", content |-> <<"x","1">>], [role |-> "model", content |-> <<"x","2">>] >>

\* Chat 7 holds 0 to MaxTurns turns and chat 8 holds two; get_history is
\* about to be called for chat 7, with a limit or, as the webhook calls it
\* (lines 337 and 347), without one.  Without a store client there is no store.
InitHistory ==
  /\ dbConfigured \in BOOLEAN
  /\ aiConfigured = TRUE
  /\ \E n \in 0..MaxTurns :
       db = IF dbConfigured
            THEN [EmptyDb EXCEPT !.mensagens[ensure_string_id(7)] = SeededTurns(n),
                                 !.mensagens[ensure_string_id(8)] = OtherTurns]
            ELSE EmptyDb
  /\ calendar = <<>>
  /\ deliv = [s \in Slots |-> Idle]
  /\ delivered = 0
  /\ passes = [k \in MarkerKeys |-> 0]
  /\ handled = {}
  /\ last = NoCall
  /\ \/ \E l \in 1..MaxTurns : probe = [fn |-> "get_history", done |-> FALSE, chat |-> 7, limit |-> l]
     \/ probe = [fn |-> "get_history_default", done |-> FALSE, chat |-> 7]

\* db.get_history(chat_id, limit)
GetHistoryCall ==
  /\ probe.fn = "get_history" /\ ~probe.done
  /\ probe' = [fn |-> probe.fn, done |-> TRUE, chat |-> probe.chat, limit |-> probe.limit,
                result |-> get_history(db, probe.chat, probe.limit)]
  /\ UNCHANGED webhook

\* db.get_history(chat_id): the limit is the default
GetHistoryDefaultCall ==
  /\ probe.fn = "get_history_default" /\ ~probe.done
  /\ probe' = [fn |-> probe.fn, done |-> TRUE, chat |-> probe.chat,
                result |-> get_history(db, probe.chat, HistoryLimit)]
  /\ UNCHANGED webhook

NextHistory == GetHistoryCall \/ GetHistoryDefaultCall

SpecHistory == InitHistory /\ [][NextHistory]_vars

(* ---------------------------------------------------------------------- *)
(* The amount parsers on their own                                         *)
(* ---------------------------------------------------------------------- *)

\* length of the enumerated amount texts
MaxAmountLen == 3

\* the characters of the enumerated amount texts
AmountChars == {"1", "5", ",", ".", " ", "R"}

\* the amount texts named by the contract, and two messages with two numbers
AmountExamples ==
  {<<"5","0",",","0","0">>, <<"R","$"," ","1",".","2","3","4",",","5","6">>, <<"5","0",".","0","0">>, <<"n","o"," ","d","i","g","i","t","s"," ","h","e","r","e">>, <<"1",".","2",".","3">>, <<"1",",","2",",","3">>,
   <<"1",".","2","3","4",",","5","6">>, <<"R","$"," ","5","0",",","0","0">>, <<"2"," ","c","a","f","e","s"," ","5",",","5","0">>, <<"G","a","s","t","e","i"," ","5",",","5","0"," ","u","b","e","r"," ","2","x">>}

\* every text of up to MaxAmountLen characters of AmountChars, and the examples
AmountTexts == (UNION {[1..n -> AmountChars] : n \in 0..MaxAmountLen}) \cup AmountExamples

InitAmount ==
  /\ dbConfigured = TRUE
  /\ aiConfigured = TRUE
  /\ db = EmptyDb
  /\ calendar = <<>>
  /\ deliv = [s \in Slots |-> Idle]
  /\ delivered = 0
  /\ passes = [k \in MarkerKeys |-> 0]
  /\ handled = {}
  /\ last = NoCall
  /\ \E t \in AmountTexts, fn \in {"to_float", "parse_amount"} :
       probe = [fn |-> fn, done |-> FALSE, text |-> t]

\* to_float(text) (app/core/utils.py), as add_expense_uc.execute and the
\* expense fallback of the webhook call it
ToFloatCall ==
  /\ probe.fn = "to_float" /\ ~probe.done
  /\ probe' = [fn |-> probe.fn, done |-> TRUE, text |-> probe.text, result |-> to_float(probe.text)]
  /\ UNCHANGED webhook

\* self.parse_amount(amount_str) (app/main.py), as _execute_intent calls it
ParseAmountCall ==
  /\ probe.fn = "parse_amount" /\ ~probe.done
  /\ probe' = [fn |-> probe.fn, done |-> TRUE, text |-> probe.text,
                result |-> [ok |-> TRUE, val |-> parse_amount(probe.text)]]
  /\ UNCHANGED webhook

NextAmount == ToFloatCall \/ ParseAmountCall

SpecAmount == InitAmount /\ [][NextAmount]_vars

(* ---------------------------------------------------------------------- *)
(* The monthly report on its own                                           *)
(* ---------------------------------------------------------------------- *)

\* expenses added in one behaviour
MaxExpenses == 3

\* the instants of November 2026, December 2026 and January 2027
Instants == Instant(2026, 11, 0)..Instant(2027, 1, TicksPerMonth - 1)

\* what an expense may hold
ExpenseKinds ==
  { [amount |-> [num |-> 55,  dec |-> 1], category |-> <<"t","r","a","n","s","p","o","r","t","e">>, item |-> <<"u","b","e","r">>],
    [amount |-> [num |-> 10,  dec |-> 0], category |-> <<"o","u","t","r","o","s">>,     item |-> <<"c","a","f","e">>],
    [amount |-> [num |-> 125, dec |-> 2], category |-> <<"t","r","a","n","s","p","o","r","t","e">>, item |-> <<"o","n","i","b","u","s">>] }

\* An empty store at the first instant; probe.clock is the time, probe.pc
\* the position of the one call of monthly_report_uc.execute for chat 7.
InitReport ==
  /\ dbConfigured = TRUE
  /\ aiConfigured = TRUE
  /\ db = EmptyDb
  /\ calendar = <<>>
  /\ deliv = [s \in Slots |-> Idle]
  /\ delivered = 0
  /\ passes = [k \in MarkerKeys |-> 0]
  /\ handled = {}
  /\ last = NoCall
  /\ probe = [fn |-> "monthly_report", done |-> FALSE, pc |-> "idle", chat |-> 7,
              clock |-> Instant(2026, 11, 0)]

\* time passes
ClockTick ==
  /\ probe.fn = "monthly_report" /\ ~probe.done
  /\ probe.clock + 1 \in Instants
  /\ probe' = [probe EXCEPT !.clock = @ + 1]
  /\ UNCHANGED webhook

\* a webhook call adds an expense of a chat: db.add_expense
ExpenseAdded ==
  /\ probe.fn = "monthly_report" /\ ~probe.done
  /\ \E chat_id \in Chats, k \in ExpenseKinds :
       /\ Len(db.expenses[ensure_string_id(7)]) + Len(db.expenses[ensure_string_id(8)]) < MaxExpenses
       /\ db' = add_expense_at(db, chat_id, k.amount, k.category, k.item, probe.clock)
  /\ UNCHANGED <<probe, dbConfigured, aiConfigured, calendar, deliv, delivered, passes, handled, last>>

\* MonthlyReportUseCase.execute, lines 22-25: now = datetime.now()
ReportBegin ==
  /\ probe.fn = "monthly_report" /\ probe.pc = "idle"
  /\ probe' = [fn |-> probe.fn, done |-> FALSE, pc |-> "query", chat |-> probe.chat,
                clock |-> probe.clock, now |-> probe.clock]
  /\ UNCHANGED webhook

\* MonthlyReportUseCase.execute, lines 27-63: the query and the sums
ReportQuery ==
  /\ probe.fn = "monthly_report" /\ probe.pc = "query"
  /\ probe' = [fn |-> probe.fn, done |-> TRUE, pc |-> "done", chat |-> probe.chat,
                clock |-> probe.clock, now |-> probe.now,
                result |-> MonthlyReportExecute(db, probe.chat, probe.now)]
  /\ UNCHANGED webhook

NextReport == ClockTick \/ ExpenseAdded \/ ReportBegin \/ ReportQuery

SpecReport == InitReport /\ [][NextReport]_vars

(* ---------------------------------------------------------------------- *)
(* GeminiService.chat on its own                                           *)
(* ---------------------------------------------------------------------- *)

\* the texts chat is called with
ChatTexts == {
  <<"O","i">>,
  <<"N","a~","o"," ","s","e","i",".">>,
  <<"l","e","m","b","r","a","r"," ","d","e"," ","p","a","g","a","r"," ","l","u","z">>,
  <<"L","e","m","b","r","e","t","e",":"," ","d","e","n","t","i","s","t","a">>,
  <<"A","G","E","N","D","A","R"," ","r","e","u","n","i","a","o">>,
  <<"O"," ","q","u","e"," ","t","e","m"," ","n","a"," ","a","g","e","n","d","a"," ","h","o","j","e","?">>,
  <<"M","e","u","s"," ","c","o","m","p","r","o","m","i","s","s","o","s">>,
  <<"a","g","e","n","d","a"," ","e"," ","l","e","m","b","r","e","t","e">> }

\* what the remote model does on one generate_content
ChatGens == {
  [kind |-> "invalid_json"], [kind |-> "error"],
  Json([intent |-> "conversa", response |-> <<"o","i">>]),
  Json([intent |-> "conversa", response |-> <<>>]),
  Json([intent |-> "conversa", response |-> <<"N","a~","o"," ","s","e","i",".">>]),
  Json([intent |-> "conversa", response |-> <<"N","a~","o"," ","e","n","t","e","n","d","i",".">>]),
  Json([intent |-> "conversa", response |-> <<"P","o","s","s","o"," ","a","n","o","t","a","r"," ","i","s","s","o",".">>]),
  Json([intent |-> "agendar", title |-> <<"P","a","g","a","r"," ","l","u","z">>, start_iso |-> <<>>]),
  Json([intent |-> "consultar_agenda", time_min |-> <<>>, time_max |-> <<>>]),
  Json([response |-> <<"N","a~","o"," ","s","e","i",".">>]) }

\* chat(text, history, is_audio) is called with the text of the message, or
\* with the uploaded file (here the empty text) and is_audio=True
InitChat ==
  /\ dbConfigured = TRUE
  /\ aiConfigured \in BOOLEAN
  /\ db = EmptyDb
  /\ calendar = <<>>
  /\ deliv = [s \in Slots |-> Idle]
  /\ delivered = 0
  /\ passes = [k \in MarkerKeys |-> 0]
  /\ handled = {}
  /\ last = NoCall
  /\ \E t \in ChatTexts \cup {<<>>}, g \in ChatGens :
       probe = [fn |-> "chat", done |-> FALSE, text |-> t, is_audio |-> t = <<>>, gen |-> g]

\* gemini.chat(text, history) and gemini.chat(file, history, is_audio=True)
ChatCall ==
  /\ probe.fn = "chat" /\ ~probe.done
  /\ probe' = [fn |-> probe.fn, done |-> TRUE, text |-> probe.text, is_audio |-> probe.is_audio,
                gen |-> probe.gen, result |-> chat(probe.text, probe.is_audio, probe.gen)]
  /\ UNCHANGED webhook

NextChat == ChatCall

SpecChat == InitChat /\ [][NextChat]_vars

(* ---------------------------------------------------------------------- *)
(* The morning notification loop: app/routers/cron.py and app/main.py      *)
(* ---------------------------------------------------------------------- *)

\* db.get_all_chats() / get_all_users(): the ids of the documents of chats, in
\* the order the store streams them
ChatLists == {<<>>, <<7>>, <<8>>, <<7, 8>>, <<8, 7>>}

\* What one iteration of the loop meets: the task query raises, the model
\* raises in generate_content, the post to Telegram raises, or nothing fails.
CronOutcomes == {"ok", "tasks_fail", "gen_fail", "send_fail"}

\* the text the model generates for a morning prompt
MorningText == <<"B","o","m"," ","d","i","a","!">>

InitCron ==
  /\ dbConfigured \in BOOLEAN
  /\ aiConfigured = TRUE
  /\ \E ts \in TaskSeeds : db = [EmptyDb EXCEPT !.tasks[ensure_string_id(7)] = ts]
  /\ calendar = <<>>
  /\ deliv = [s \in Slots |-> Idle]
  /\ delivered = 0
  /\ passes = [k \in MarkerKeys |-> 0]
  /\ handled = {}
  /\ last = NoCall
  /\ \E l \in ChatLists, fn \in {"cron_bom_dia", "main_cron_bom_dia"} :
       probe = [fn |-> fn, done |-> FALSE, pc |-> "start", store_chats |-> l, all_chats |-> <<>>,
                i |-> 1, ran |-> <<>>, sent |-> <<>>, result |-> "none"]

\* the loop is left: the except branch (result "error"), or the return after
\* the last iteration
CronReturn(p, result) == [p EXCEPT !.done = TRUE, !.pc = "done", !.result = result]

\* cron.py lines 44-52: the guard on the client and db.get_all_chats()
CronBegin ==
  /\ probe.fn = "cron_bom_dia" /\ probe.pc = "start"
  /\ probe' = IF ~dbConfigured THEN CronReturn(probe, "unavailable")
               ELSE [probe EXCEPT !.pc = "loop", !.all_chats = probe.store_chats]
  /\ UNCHANGED webhook

\* cron.py lines 54-76: one iteration.  list_events and generate_content
\* catch their own exceptions, send_telegram_message of cron.py catches the
\* exception of the post; tasks_uc.execute(chat_id) catches nothing.
CronIteration ==
  /\ probe.fn = "cron_bom_dia" /\ probe.pc = "loop" /\ probe.i <= Len(probe.all_chats)
  /\ \E o \in CronOutcomes, calUp \in BOOLEAN :
       LET chat_id     == probe.all_chats[probe.i]
           events      == list_events(calendar, TodayMin, TodayMax, calUp)
           tasks_text  == ListTasks(db, chat_id)
           morning_msg == IF o = "gen_fail" THEN <<>> ELSE MorningText
           Ran(p)      == [p EXCEPT !.ran = Append(@, [chat |-> chat_id, outcome |-> o, tasks |-> tasks_text])]
           Sent(p)     == IF morning_msg # <<>> /\ TELEGRAM_TOKEN /\ o # "send_fail"
                          THEN [p EXCEPT !.sent = Append(@, [chat |-> chat_id, text |-> morning_msg])]
                          ELSE p
       IN  probe' = IF o = "tasks_fail"
                    THEN CronReturn([probe EXCEPT !.ran = Append(@, [chat |-> chat_id, outcome |-> o, tasks |-> <<>>])],
                                    "error")
                    ELSE [Sent(Ran(probe)) EXCEPT !.i = @ + 1]
  /\ UNCHANGED webhook

\* cron.py line 78: return {"sent": count, "total_users": len(all_chats)}
CronEnd ==
  /\ probe.fn = "cron_bom_dia" /\ probe.pc = "loop" /\ probe.i > Len(probe.all_chats)
  /\ probe' = CronReturn(probe, "returned")
  /\ UNCHANGED webhook

\* main.py lines 705-707: orchestrator.db.get_all_users(), which has no guard
\* on the client
MainCronBegin ==
  /\ probe.fn = "main_cron_bom_dia" /\ probe.pc = "start"
  /\ probe' = IF ~dbConfigured THEN CronReturn(probe, "error")
               ELSE [probe EXCEPT !.pc = "loop", !.all_chats = probe.store_chats]
  /\ UNCHANGED webhook

\* main.py lines 709-732: one iteration.  list_events and
\* telegram.send_message catch their own exceptions; db.get_tasks and
\* gemini.model.generate_content(prompt).text catch nothing.
MainCronIteration ==
  /\ probe.fn = "main_cron_bom_dia" /\ probe.pc = "loop" /\ probe.i <= Len(probe.all_chats)
  /\ \E o \in CronOutcomes :
       LET chat_id == probe.all_chats[probe.i]
           Ran(p)  == [p EXCEPT !.ran = Append(@, [chat |-> chat_id, outcome |-> o, tasks |-> <<>>])]
           Sent(p) == IF o # "send_fail"
                      THEN [p EXCEPT !.sent = Append(@, [chat |-> chat_id,
                                                         text |-> <<"U+2600",":vs16:"," ","*","B","o","m"," ","d","i","a","!","*","NL","NL">> \o MorningText])]
                      ELSE p
       IN  probe' = IF o \in {"tasks_fail", "gen_fail"}
                    THEN CronReturn(Ran(probe), "error")
                    ELSE [Sent(Ran(probe)) EXCEPT !.i = @ + 1]
  /\ UNCHANGED webhook

\* main.py line 734: return {"status": "success", "users_notified": len(users)}
MainCronEnd ==
  /\ probe.fn = "main_cron_bom_dia" /\ probe.pc = "loop" /\ probe.i > Len(probe.all_chats)
  /\ probe' = CronReturn(probe, "returned")
  /\ UNCHANGED webhook

NextCron ==
  \/ CronBegin \/ CronIteration \/ CronEnd
  \/ MainCronBegin \/ MainCronIteration \/ MainCronEnd

SpecCron == InitCron /\ [][NextCron]_vars

(* ---------------------------------------------------------------------- *)
(* The folder context on its own                                           *)
(* ---------------------------------------------------------------------- *)

\* calls of save_last_folder_context in one behaviour
MaxSets == 3

\* the folder names and the file lists a context is saved with
ContextNames == {<<"P","r","o","j","e","t","o"," ","B","e","t","a">>, <<"V","a","z","i","a">>}

ContextFileLists ==
  { <<>>,
    << [id |-> "A1", name |-> <<"n","o","t","a","s",".","t","x","t">>, mimeType |-> "text/plain"] >>,
    << [id |-> "A2", name |-> <<"p","l","a","n","o",".","p","d","f">>], [id |-> "A1", name |-> <<"n","o","t","a","s",".","t","x","t">>] >> }

NeverSaved == [saved |-> FALSE]

InitContext ==
  /\ dbConfigured \in BOOLEAN
  /\ aiConfigured = TRUE
  /\ db = EmptyDb
  /\ calendar = <<>>
  /\ deliv = [s \in Slots |-> Idle]
  /\ delivered = 0
  /\ passes = [k \in MarkerKeys |-> 0]
  /\ handled = {}
  /\ last = NoCall
  /\ probe = [fn |-> "folder_context", done |-> FALSE, sets |-> 0,
               latest |-> [c \in Chats |-> NeverSaved]]

\* db.save_last_folder_context(chat_id, folder_name, files)
SaveContextCall ==
  /\ probe.fn = "folder_context" /\ probe.sets < MaxSets
  /\ \E c \in Chats, folder_name \in ContextNames, files \in ContextFileLists :
       /\ db' = save_last_folder_context(db, c, folder_name, files)
       /\ probe' = [fn |-> probe.fn, done |-> FALSE, sets |-> probe.sets + 1,
                     latest |-> [probe.latest EXCEPT ![c] =
                                   [saved |-> TRUE, folder_name |-> folder_name, files |-> files]]]
  /\ UNCHANGED <<dbConfigured, aiConfigured, calendar, deliv, delivered, passes, handled, last>>

\* db.get_last_folder_context(chat_id)
GetContextCall ==
  /\ probe.fn = "folder_context"
  /\ \E c \in Chats :
       probe' = [fn |-> probe.fn, done |-> TRUE, sets |-> probe.sets, latest |-> probe.latest,
                 chat |-> c, result |-> get_last_folder_context(db, c)]
  /\ UNCHANGED webhook

NextContext == SaveContextCall \/ GetContextCall

SpecContext == InitContext /\ [][NextContext]_vars

(* ---------------------------------------------------------------------- *)
(* reset_history on its own                                                *)
(* ---------------------------------------------------------------------- *)

\* Chat 7 holds 0 to MaxTurns turns and chat 8 holds two; reset_history is
\* about to be called for chat 7 with a limit.
InitReset ==
  /\ dbConfigured = TRUE
  /\ aiConfigured = TRUE
  /\ \E n \in 0..MaxTurns :
       db = [EmptyDb EXCEPT !.mensagens[ensure_string_id(7)] = SeededTurns(n),
                            !.mensagens[ensure_string_id(8)] = OtherTurns]
  /\ calendar = <<>>
  /\ deliv = [s \in Slots |-> Idle]
  /\ delivered = 0
  /\ passes = [k \in MarkerKeys |-> 0]
  /\ handled = {}
  /\ last = NoCall
  /\ \E l \in 1..MaxTurns : probe = [fn |-> "reset_history", done |-> FALSE, chat |-> 7, limit |-> l]

\* db.reset_history(chat_id, limit): the store picks the documents of the
\* unordered query
ResetCall ==
  /\ probe.fn = "reset_history" /\ ~probe.done
  /\ \E del \in LimitChoices(db.mensagens[ensure_string_id(probe.chat)], probe.limit) :
       db' = reset_history(db, probe.chat, del)
  /\ probe' = [fn |-> probe.fn, done |-> TRUE, chat |-> probe.chat, limit |-> probe.limit,
                before |-> db.mensagens[ensure_string_id(probe.chat)]]
  /\ UNCHANGED <<dbConfigured, aiConfigured, calendar, deliv, delivered, passes, handled, last>>

NextReset == ResetCall

SpecReset == InitReset /\ [][NextReset]_vars

(* ---------------------------------------------------------------------- *)
(* Properties                                                              *)
(* ---------------------------------------------------------------------- *)

\* a webhook call has returned
Called == last.status # "none"

LastKey == MarkerKey(last.chat, last.msg_id)

\* the last call went through GeminiService.chat, with a store client and a
\* configured model, and no Firestore call of it raised
ClassifiedCall == Called /\ dbConfigured /\ aiConfigured /\ last.ai.called /\ last.fault = "none"

LastIntent == Get(last.ai.gen.data, "intent", "None")

\* C1: Under sequential use with a store client, the anti-loop check returns
\* False at most once per (chat, message) key and that call writes the one
\* marker of the key; a call that returns True comes after the call that
\* returned False and changes nothing in the store.
C1_SequentialGuard ==
  dbConfigured =>
    /\ \A k \in MarkerKeys : passes[k] <= 1 /\ db.processed_ids[k] = passes[k]
    /\ (Called /\ last.guard = "true") => (passes[LastKey] = 1 /\ ~last.wrote)

\* C1 witness: a second delivery of a message was answered True by the check
C1_Witness ==
  /\ dbConfigured /\ Called
  /\ last.guard = "true" /\ last.status = "ignored"
  /\ passes[LastKey] = 1 /\ db.processed_ids[LastKey] = 1

\* C2: With a store client, whatever the interleaving of the reads and writes
\* of concurrent deliveries, the anti-loop check returns False at most once
\* per (chat, message) key.
C2_AtMostOnePass ==
  dbConfigured => \A k \in MarkerKeys : passes[k] <= 1

\* C3: A delivery of an event, commands included, that begins after a call
\* for the same event has returned does nothing: it sends no message and
\* changes neither the store nor the calendar.
C3_RedeliveryDoesNothing ==
  (dbConfigured /\ Called /\ last.redelivery) => (last.sent = <<>> /\ ~last.wrote)

\* C4: With a store client, once the anti-loop check has returned False for
\* an event its marker exists in every later state, and no delivery of the
\* event that begins afterwards gets past the check (it is ignored, or the
\* read of the marker raises), whatever the first delivery and the calls
\* in between (other events, /reset) did.
C4_MarkerPersists ==
  dbConfigured =>
    /\ \A k \in MarkerKeys : passes[k] > 0 => db.processed_ids[k] > 0
    /\ \A s \in Slots : (deliv[s] # Idle /\ deliv[s].when.late) => deliv[s].pc = "guard_get"
    /\ (Called /\ last.late) => last.guard \in {"true", "raised"}

\* C4 witness: /reset has run on a chat after one of the chat's messages passed
\* the check, and the marker is still there
C4_Witness ==
  /\ dbConfigured /\ Called
  /\ last.status = "reset" /\ last.chat_passed /\ last.wrote
  /\ \E k \in MarkerKeys :
       k[1] = ensure_string_id(last.chat) /\ passes[k] > 0 /\ db.processed_ids[k] > 0

\* C5: Every text or voice event that got past the anti-loop check is answered
\* with exactly one message, on every path of the handler.
C5_ExactlyOneReply ==
  (dbConfigured /\ aiConfigured /\ Called /\ last.guard = "false") => Len(last.sent) = 1

\* C6: When the classifier call fails or its answer is not JSON, and the text
\* has no scheduling word, chat() gives the converse fallback with the apology
\* and the handler sends that apology; it does not end with an exception.
C6_ApologySent ==
  (ClassifiedCall /\ ~last.voice /\ last.ai.gen.kind \in {"invalid_json", "error"}
     /\ ~HasScheduleWord(last.text)) =>
    LET apology == IF last.ai.gen.kind = "invalid_json" THEN MsgInvalidJson ELSE MsgAiError
    IN  /\ last.ai.data = [intent |-> "conversa", response |-> apology]
        /\ last.status # "error"
        /\ last.sent = <<apology>>

\* C7: The anti-loop check never raises: without a store client, and when the
\* read or the write of the marker fails, it returns False and the event is
\* processed; it returns True only with a store client.
C7_GuardNeverRaises ==
  (Called /\ last.guard # "none") => (last.guard = "false" \/ (dbConfigured /\ last.guard = "true"))

\* C8: For every event the classifier tags as conversa, no message sent is
\* empty or equal to the user's text (both trimmed and case-folded), and when
\* the classifier's reply is empty or equal to the text in that sense the
\* message sent is the fixed generic prompt.
C8_AntiEcho ==
  (ClassifiedCall /\ last.ai.gen.kind = "json" /\ LastIntent = "conversa") =>
    LET reply == Lower(Strip(Get(last.ai.gen.data, "response", <<>>)))
        input == Lower(Strip(last.text))
    IN  /\ \A i \in 1..Len(last.sent) :
             Strip(last.sent[i]) # <<>> /\ Lower(Strip(last.sent[i])) # input
        /\ (reply = <<>> \/ reply = input) =>
             (last.sent # <<>> /\ last.sent[Len(last.sent)] = MsgGenericPrompt)

\* C9: For a classifier answer whose intent is missing or outside the
\* vocabulary, the handler does not raise, calls no mutating collaborator and
\* sends a non-empty reply.
C9_DispatcherTotal ==
  (ClassifiedCall /\ last.ai.gen.kind = "json" /\ LastIntent \notin Intents) =>
    /\ last.status # "error"
    /\ last.mutations = 0
    /\ last.sent # <<>> /\ last.sent[Len(last.sent)] # <<>>

\* C10: No expense whose amount is zero is in the store.
C10_NoZeroExpense ==
  \A c \in ChatKeys : \A i \in 1..Len(db.expenses[c]) : db.expenses[c][i].amount.num # 0

\* the step in which the webhook call of slot s, past the anti-loop check,
\* processes its event and returns
Handled(s) == deliv[s].pc = "process" /\ deliv'[s] = Idle

\* the call that returns in this step was classified add_expense (JSON answer),
\* had a store client and a model, and met no Firestore failure
ExpenseCreateCall ==
  /\ dbConfigured /\ aiConfigured
  /\ last'.ai.called /\ last'.fault = "none"
  /\ last'.ai.gen.kind = "json" /\ Get(last'.ai.gen.data, "intent", "None") = "add_expense"

\* what an expense-create call must do: one expense more in its chat, with the
\* amount of the raw text, the classifier's category (or outros) and item, and
\* a reply that holds the amount with a decimal comma and two decimals
ExpenseCreateEffect ==
  LET k      == ensure_string_id(last'.chat)
      amount == to_float(last'.text)
      data   == last'.ai.gen.data
  IN  /\ amount.ok
      /\ db'.expenses[k] = Append(db.expenses[k],
                                   [amount    |-> amount.val,
                                    category  |-> Get(data, "category", <<"o","u","t","r","o","s">>),
                                    item      |-> Get(data, "item", <<>>),
                                    timestamp |-> Today])
      /\ last'.sent # <<>>
      /\ \E units \in 0..99, d1, d2 \in 0..9 :
           /\ amount.val = NormFloat([num |-> units * 100 + d1 * 10 + d2, dec |-> 2])
           /\ Contains(last'.sent[Len(last'.sent)],
                       DigitsOf(units) \o <<",">> \o <<DigitChars[d1 + 1], DigitChars[d2 + 1]>>)
      /\ (last'.text = <<"G","a","s","t","e","i"," ","5",",","5","0"," ","u","b","e","r">>) =>
           (amount.val = [num |-> 55, dec |-> 1] /\ Contains(last'.sent[Len(last'.sent)], <<"5",",","5","0">>))

RECURSIVE Total(_, _)
Total(f, S) == IF S = {} THEN 0 ELSE LET x == CHOOSE y \in S : TRUE IN f[x] + Total(f, S \ {x})

\* what the mutating collaborator calls have left behind: the tasks added,
\* the tasks completed, the expenses added and the calendar events created
Effects(d, cal) ==
  Len(cal)
  + Total([k \in ChatKeys |->
             Len(d.tasks[k]) + Len(d.expenses[k])
             + Cardinality({i \in 1..Len(d.tasks[k]) : d.tasks[k][i].status = "concluido"})],
          ChatKeys)

\* C12: A call that got past the anti-loop check makes at most one mutating
\* collaborator call (task add, task complete, expense add, calendar create),
\* also when the classifier failed and the expense fallback runs, and the
\* tasks, expenses and calendar change by no more than that call.  With a JSON
\* answer the number is one for add_task, for add_expense on a text with a
\* parseable amount and for agendar with a title and a start, and it is none
\* for conversa, consultar_agenda, list_tasks, finance_report and
\* analyze_project.
C12_OneMutation ==
  [][\A s \in Slots :
       (Handled(s) /\ dbConfigured /\ aiConfigured /\ last'.fault = "none") =>
         LET made   == last'.mutations
             effect == Effects(db', calendar') - Effects(db, calendar)
             data   == IF last'.ai.called /\ last'.ai.gen.kind = "json" /\ last'.status # "error"
                       THEN last'.ai.gen.data ELSE [intent |-> "None"]
             intent == Get(data, "intent", "None")
             reply  == IF last'.sent = <<>> THEN <<>> ELSE last'.sent[Len(last'.sent)]
         IN  /\ made \in {0, 1} /\ effect \in {0, made}
             /\ intent = "add_task" => (made = 1 /\ effect = 1)
             /\ (intent = "add_expense" /\ to_float(last'.text).ok) => (made = 1 /\ effect = 1)
             /\ (intent = "agendar" /\ Get(data, "title", <<>>) # <<>> /\ Get(data, "start_iso", <<>>) # <<>>) =>
                  (made = 1 /\ (effect = 1 <=> Contains(reply, <<"L","e","m","b","r","e","t","e"," ","a","g","e","n","d","a","d","o">>)))
             /\ intent = "complete_task" => (effect = 1 <=> reply = <<":check:"," ","F","e","i","t","o",".">>)
             /\ (intent \in {"conversa", "consultar_agenda", "list_tasks", "finance_report", "analyze_project"}
                  /\ Get(data, "response", <<>>) \notin ErrorReplies) => (made = 0 /\ effect = 0)]_vars

\* C12 witness: the classifier's answer was not JSON, the expense fallback
\* ran on "Gastei 5,50 uber" and the call made its one mutating call
C12_Witness ==
  /\ ClassifiedCall /\ last.ai.gen.kind = "invalid_json"
  /\ last.text = <<"G","a","s","t","e","i"," ","5",",","5","0"," ","u","b","e","r">> /\ last.status = "ok"
  /\ last.mutations = 1
  /\ Effects(db, calendar) >= 1
  /\ Contains(last.sent[Len(last.sent)], <<"5",",","5","0">>)

MsgClarifySchedule == <<":x:"," ","N","a~","o"," ","c","o","n","s","e","g","u","i"," ","e","n","t","e","n","d","e","r"," ","a"," ","d","a","t","a","/","h","o","r","a","."," ","E","x",":"," ","'","L","e","m","b","r","a","r"," ","a","m","a","n","h","a~"," ","8","h"," ","c","o","l","o","c","a","r"," ","c","o","m","i","d","a","'">>

MsgScheduleFailed == <<":x:"," ","E","r","r","o"," ","a","o"," ","a","g","e","n","d","a","r","."," ","V","e","r","i","f","i","q","u","e"," ","a"," ","d","a","t","a","/","h","o","r","a"," ","i","n","f","o","r","m","a","d","a",".">>

\* C13: For an agendar answer of the adapter whose title or start is empty,
\* create_event is not called, the calendar is unchanged and the reply is the
\* clarification; when both are present create_event is called once, and
\* either the event is in the calendar and the reply reports the reminder as
\* scheduled, or the calendar is unchanged and the reply is the failure text.
C13_ScheduleCreate ==
  [][\A s \in Slots :
       (Handled(s) /\ dbConfigured /\ aiConfigured /\ last'.ai.called /\ last'.fault = "none"
          /\ last'.status # "error" /\ Get(last'.ai.data, "intent", "None") = "agendar") =>
         LET data  == last'.ai.data
             title == Get(data, "title", <<>>)
             start == Get(data, "start_iso", <<>>)
         IN  IF title = <<>> \/ start = <<>>
             THEN /\ last'.mutations = 0 /\ calendar' = calendar
                  /\ last'.sent = <<MsgClarifySchedule>>
             ELSE /\ last'.mutations = 1 /\ Len(last'.sent) = 1
                  /\ \/ /\ Len(calendar') = Len(calendar) + 1
                        /\ SubSeq(calendar', 1, Len(calendar)) = calendar
                        /\ calendar'[Len(calendar')].summary = title
                        /\ calendar'[Len(calendar')].start = start
                        /\ Contains(last'.sent[1], <<":check:"," ","L","e","m","b","r","e","t","e"," ","a","g","e","n","d","a","d","o">>)
                     \/ /\ calendar' = calendar
                        /\ last'.sent = <<MsgScheduleFailed>>]_vars

\* C13 witness: a reminder is in the calendar, and the last call, an agendar
\* without a start, got the clarification and left the calendar alone
C13_Witness ==
  /\ ClassifiedCall /\ Get(last.ai.data, "intent", "None") = "agendar"
  /\ Get(last.ai.data, "title", <<>>) # <<>> /\ Get(last.ai.data, "start_iso", <<>>) = <<>>
  /\ last.sent = <<MsgClarifySchedule>> /\ last.mutations = 0
  /\ Len(calendar) = 1 /\ calendar[1].summary = <<"P","a","g","a","r"," ","l","u","z">>

\* C14: A complete_task call changes at most one task of its chat and none of
\* another chat: the first pending task, in the store's order, whose item
\* contains the given text when both are case-folded becomes concluido and the
\* reply is the confirmation; a task that is already concluido is never the
\* match; when no pending task matches, no task changes and the reply says
\* that nothing was found.
C14_CompleteTask ==
  [][\A s \in Slots :
       (Handled(s) /\ dbConfigured /\ aiConfigured /\ last'.ai.called /\ last'.fault = "none"
          /\ last'.ai.gen.kind = "json" /\ Get(last'.ai.gen.data, "intent", "None") = "complete_task") =>
         LET k    == ensure_string_id(last'.chat)
             item == Get(last'.ai.gen.data, "item", <<>>)
             ts   == db.tasks[k]
             ms   == {i \in 1..Len(ts) :
                        ts[i].status = "pendente" /\ Contains(Lower(ts[i].item), Lower(item))}
         IN  /\ \A c \in ChatKeys \ {k} : db'.tasks[c] = db.tasks[c]
             /\ Len(db'.tasks[k]) = Len(ts)
             /\ \A i \in 1..Len(ts) :
                  IF i \in ms /\ \A j \in ms : i <= j
                  THEN db'.tasks[k][i] = [item |-> ts[i].item, status |-> "concluido"]
                  ELSE db'.tasks[k][i] = ts[i]
             /\ last'.sent = <<IF ms = {} THEN <<":mag:"," ","N","a~","o"," ","a","c","h","e","i",".">> ELSE <<":check:"," ","F","e","i","t","o",".">>>>
             /\ (ts = SeededTasks /\ item = <<"L","U","Z">>) =>
                  db'.tasks[k] = [SeededTasks EXCEPT ![3].status = "concluido"]]_vars

\* C14 witness: complete_task for "LUZ" ran on the four seeded tasks: the
\* third, the first pending one that holds the text, is concluido
C14_Witness ==
  /\ ClassifiedCall /\ last.ai.gen.kind = "json" /\ LastIntent = "complete_task"
  /\ Get(last.ai.gen.data, "item", <<>>) = <<"L","U","Z">>
  /\ last.sent = <<<<":check:"," ","F","e","i","t","o",".">>>>
  /\ db.tasks[ensure_string_id(last.chat)] = [SeededTasks EXCEPT ![3].status = "concluido"]

\* C15: search_folder returns an entry whose trimmed, case-folded name equals
\* the trimmed, case-folded query whenever the catalog holds one, wherever it
\* is; when it holds none, the first entry in catalog order whose case-folded
\* name contains the query; and None when it holds neither.
C15_ResolverPrecedence ==
  (probe.fn = "search_folder" /\ probe.done) =>
    LET flat  == Flatten(probe.pages)
        q     == Lower(Strip(probe.query))
        exact == {i \in 1..Len(flat) : Lower(Strip(flat[i].name)) = q}
        cont  == {i \in 1..Len(flat) : Contains(Lower(flat[i].name), q)}
    IN  IF exact # {} THEN probe.result.found /\ \E i \in exact : probe.result.folder = flat[i]
        ELSE IF cont # {}
        THEN probe.result.found /\ probe.result.folder = flat[CHOOSE i \in cont : \A j \in cont : i <= j]
        ELSE ~probe.result.found

\* C16: a resolver answers "not found" only after it has read every page of
\* the catalog, following the next-page tokens until none is returned, and it
\* finds a folder whose name is the query on whatever page the folder is.
C16_ResolverComplete ==
  (probe.fn \in {"search_folder", "find_folder"} /\ probe.done) =>
    /\ ~probe.result.found => probe.reads = Len(probe.pages)
    /\ (\E i \in 1..Len(probe.pages) : \E j \in 1..Len(probe.pages[i]) :
          probe.pages[i][j].name = probe.query) => probe.result.found

\* the call that returns in this step is an analysis: it was served from the
\* stored folder context, or the classifier's JSON answer is analyze_project
AnalysisCall ==
  /\ dbConfigured /\ aiConfigured /\ last'.fault = "none" /\ last'.status # "error"
  /\ \/ last'.status = "analyzed"
     \/ /\ last'.ai.called /\ last'.ai.gen.kind = "json"
        /\ Get(last'.ai.gen.data, "intent", "None") = "analyze_project"

\* the folder that the classifier's answer of that call names (<<>>: none)
ClassifierFolder ==
  IF last'.ai.called THEN Get(last'.ai.gen.data, "folder", <<>>) ELSE <<>>

\* the text of that call names a folder of the Drive
TextNamesFolder ==
  \E i \in 1..Len(DriveFolders) : Contains(Lower(last'.text), Lower(DriveFolders[i].name))

\* C17: An analysis request that names no folder, made when a folder listing
\* has stored its context for the chat, targets the stored folder and calls
\* search_folder for no name: the catalog is not enumerated again.
C17_CarryOverWithoutLookup ==
  [][\A s \in Slots :
       (Handled(s) /\ AnalysisCall
          /\ get_last_folder_context(db, last'.chat).found
          /\ ClassifierFolder = <<>> /\ ~TextNamesFolder) =>
         /\ last'.sent # <<>>
         /\ last'.lookups = <<>>]_vars

\* C18: After an analyze_project call that resolved a folder and summarised
\* it, the chat's stored folder context holds the resolved name of that
\* folder and its files.
C18_AnalysisStoresContext ==
  [][\A s \in Slots :
       (Handled(s) /\ AnalysisCall /\ last'.ai.called
          /\ last'.sent # <<>> /\ last'.sent[Len(last'.sent)] = SummaryText) =>
         LET sf      == search_folder(last'.lookups[1], TRUE)
             context == get_last_folder_context(db', last'.chat)
         IN  /\ sf.found /\ context.found
             /\ context.folder_name = sf.folder.name
             /\ context.files = FileRefs(list_files_in_folder(sf.folder.id, TRUE))]_vars

\* C19: In every analysis the classifier is consulted before the stored folder
\* context is used, the context decides the target only when the classifier's
\* answer names no folder, and a request whose text names a folder other than
\* the stored one targets the named folder.
C19_ClassifierBeforeContext ==
  [][\A s \in Slots :
       (Handled(s) /\ AnalysisCall /\ get_last_folder_context(db, last'.chat).found) =>
         /\ last'.ai.called
         /\ ClassifierFolder # <<>> => last'.lookups = <<ClassifierFolder>>
         /\ (last'.text = <<"r","e","s","u","m","o"," ","d","a"," ","p","a","s","t","a"," ","V","a","z","i","a">>) =>
              (last'.lookups # <<>> /\ search_folder(last'.lookups[1], TRUE).folder.name = <<"V","a","z","i","a">>)]_vars

\* C20: /reset, when the store does not fail, changes nothing but the turns of
\* its own chat: tasks, expenses, folder contexts, markers, the other chats'
\* turns and the calendar are unchanged; the classifier is not called; the
\* reply is the fixed confirmation; and when the chat held at most ResetLimit
\* turns, get_history of the chat is empty afterwards.
C20_ResetFrame ==
  [][(delivered' = delivered + 1 /\ deliv' = deliv
        /\ last'.text = <<"/","r","e","s","e","t">> /\ last'.fault = "none") =>
       LET k == ensure_string_id(last'.chat)
       IN  /\ db'.tasks = db.tasks /\ db'.expenses = db.expenses
           /\ db'.chats = db.chats /\ db'.processed_ids = db.processed_ids
           /\ \A c \in ChatKeys \ {k} : db'.mensagens[c] = db.mensagens[c]
           /\ calendar' = calendar
           /\ ~last'.ai.called
           /\ last'.sent = <<MsgMemoriaLimpa>> /\ last'.status = "reset"
           /\ Len(db.mensagens[k]) <= ResetLimit => get_history(db', last'.chat, HistoryLimit) = <<>>]_vars

\* C20 witness: /reset emptied the history of a chat that holds a task
C20_Witness ==
  /\ dbConfigured /\ Called /\ last.text = <<"/","r","e","s","e","t">> /\ last.status = "reset"
  /\ last.wrote /\ last.sent = <<MsgMemoriaLimpa>>
  /\ db.tasks[ensure_string_id(last.chat)] # <<>>
  /\ db.mensagens[ensure_string_id(last.chat)] = <<>>

\* get_history has been called on a store with a client
HistoryCalled == probe.fn \in {"get_history", "get_history_default"} /\ probe.done /\ dbConfigured

\* the number of lines of a text
CountLines(text) ==
  IF text = <<>> THEN 0 ELSE Cardinality({i \in 1..Len(text) : text[i] = "NL"}) + 1

\* C21: get_history(chat, limit) returns the min(limit, n) most recently
\* appended turns of the chat, oldest first, one line "role: content" per
\* turn, and nothing of another chat; called without a limit, as the webhook
\* calls it, it returns at most 6 turns.
C21_RecentTurns ==
  HistoryCalled =>
    LET m     == db.mensagens[ensure_string_id(probe.chat)]
        n     == Len(m)
        limit == IF probe.fn = "get_history" THEN probe.limit ELSE 6
        k     == IF limit <= n THEN limit ELSE n
    IN  /\ probe.result =
             JoinLines([i \in 1..k |-> RoleText(m[n - k + i].role) \o <<":"," ">> \o m[n - k + i].content])
        /\ CountLines(probe.result) = k
        /\ probe.fn = "get_history_default" => CountLines(probe.result) <= 6

\* C21 witness: get_history was called without a limit on a chat of more
\* than 6 turns, and returned something.
C21_Witness ==
  /\ HistoryCalled
  /\ probe.fn = "get_history_default"
  /\ Len(db.mensagens[ensure_string_id(probe.chat)]) > 6
  /\ probe.result # <<>>

\* the characters of an amount run: digits, dots and commas
IsAmountChar(ch) == IsDigit(ch) \/ ch \in {".", ","}

\* the longest contiguous run of digits, dots and commas of a text (the first
\* of them when several have that length), <<>> when there is none
LongestRun(text) ==
  LET runs == {r \in (1..Len(text)) \X (1..Len(text)) :
                 /\ r[1] <= r[2]
                 /\ \A k \in r[1]..r[2] : IsAmountChar(text[k])
                 /\ (r[1] = 1 \/ ~IsAmountChar(text[r[1] - 1]))
                 /\ (r[2] = Len(text) \/ ~IsAmountChar(text[r[2] + 1]))}
  IN  IF runs = {} THEN <<>>
      ELSE LET best == CHOOSE r \in runs :
                         \A q \in runs : \/ r[2] - r[1] > q[2] - q[1]
                                         \/ (r[2] - r[1] = q[2] - q[1] /\ r[1] <= q[1])
           IN  SubSeq(text, best[1], best[2])

\* the number a run stands for: without its dots and with its comma as the
\* decimal point when it holds a comma, as it is otherwise
RunValue(run) ==
  PyFloat(IF \E i \in 1..Len(run) : run[i] = ","
          THEN ReplaceChar(ReplaceChar(run, ".", <<>>), ",", <<".">>)
          ELSE run)

ToFloatCalled == probe.fn = "to_float" /\ probe.done

\* C22: the result of to_float(text) is the number of the longest contiguous
\* run of digits, dots and commas of the text, whatever the other runs of the
\* text hold (checked for the texts whose longest run is a valid number).
C22_LongestRunAlone ==
  (ToFloatCalled /\ RunValue(LongestRun(probe.text)).ok) =>
    (probe.result.ok /\ probe.result.val = RunValue(LongestRun(probe.text)).val)

\* C23: to_float(text) never raises; for a text with no digits and for a text
\* whose run is not a valid number it returns zero.
C23_ParseAmountTotal ==
  ToFloatCalled =>
    /\ probe.result.ok
    /\ ~RunValue(LongestRun(probe.text)).ok => probe.result.val = [num |-> 0, dec |-> 0]

\* C24: for every amount text for which to_float gives a number, the
\* orchestrator's parse_amount gives the same number.
C24_ParsersAgree ==
  (probe.fn = "parse_amount" /\ probe.done /\ to_float(probe.text).ok) =>
    probe.result.val = to_float(probe.text).val

\* the expenses of the chat of the report whose timestamp lies in the
\* calendar month of the instant of the report
InMonth ==
  SelectSeq(db.expenses[ensure_string_id(probe.chat)],
            LAMBDA e : YearOf(e.timestamp) = YearOf(probe.now) /\ MonthOf(e.timestamp) = MonthOf(probe.now))

\* an amount of at most two decimals, in hundredths
Cents(a) == a.num * Pow10(2 - a.dec)

\* C25: the monthly report of a chat covers exactly the expenses of that chat
\* stamped in the current calendar month: its total is the sum of their
\* amounts, the figure of each category is the sum of the amounts of that
\* category, no other category has a figure, and the figures add up to the
\* total; when there is no such expense the text is the "nothing recorded"
\* reply, and otherwise it is a report that shows the total.
C25_MonthlyReport ==
  (probe.fn = "monthly_report" /\ probe.done) =>
    LET r    == probe.result
        cats == {InMonth[i].category : i \in 1..Len(InMonth)}
    IN  /\ Cents(r.total) = Total([i \in 1..Len(InMonth) |-> Cents(InMonth[i].amount)], 1..Len(InMonth))
        /\ DOMAIN r.by_category = cats
        /\ \A c \in cats :
             Cents(r.by_category[c]) =
               Total([i \in 1..Len(InMonth) |-> Cents(InMonth[i].amount)],
                     {i \in 1..Len(InMonth) : InMonth[i].category = c})
        /\ Total([c \in cats |-> Cents(r.by_category[c])], cats) = Cents(r.total)
        /\ (InMonth = <<>>) <=> (r.formatted = MsgNada)
        /\ InMonth # <<>> =>
             Contains(r.formatted, <<"T","o","t","a","l",":"," ","R","$"," ">> \o format_currency_br(r.total) \o <<"NL">>)

\* the call that returned was classified consultar_agenda with empty bounds
\* and none of its Firestore calls raised
ScheduleQueryEmpty ==
  /\ last.ai.called /\ last.fault = "none" /\ last.status = "ok"
  /\ Get(last.ai.data, "intent", "None") = "consultar_agenda"
  /\ Get(last.ai.data, "time_min", <<>>) = <<>> /\ Get(last.ai.data, "time_max", <<>>) = <<>>

\* the events of the calendar that start today
EventsToday(cal) == SelectSeq(cal, LAMBDA e : StartsWith(e.start, TodayDate))

\* C26: a consultar_agenda call with empty bounds calls the calendar's list
\* operation with the bounds of the current day, every event of the calendar
\* that starts today is named in the reply, and the reply is the "nothing
\* scheduled" text only when no event of the calendar starts today.
C26_EmptyBoundsMeanToday ==
  [][\A s \in Slots :
       (Handled(s) /\ ScheduleQueryEmpty') =>
         /\ last'.listed = <<[time_min |-> TodayMin, time_max |-> TodayMax]>>
         /\ \A i \in 1..Len(EventsToday(calendar)) :
              last'.sent # <<>> /\ Contains(last'.sent[Len(last'.sent)], EventsToday(calendar)[i].summary)
         /\ last'.sent = <<MsgAgendaVazia>> => EventsToday(calendar) = <<>>]_vars

\* chat has returned or raised
ChatCalled == probe.fn = "chat" /\ probe.done

\* the words of a request to see the agenda
AgendaWords == {<<"a","g","e","n","d","a">>, <<"c","o","m","p","r","o","m","i","s","s","o">>, <<"c","a","l","e","n","d","a'","r","i","o">>}

HasAgendaWord(text) == \E w \in AgendaWords : Contains(Lower(text), w)

\* C27: when the output of the model cannot be parsed, chat returns agendar
\* with the text as title and empty timestamps if the text has a scheduling
\* word, otherwise consultar_agenda with empty bounds if the text has an
\* agenda word, otherwise conversa with the apology; it never raises.
C27_KeywordFallback ==
  (ChatCalled /\ aiConfigured /\ probe.gen.kind = "invalid_json") =>
    /\ ~probe.result.raised
    /\ probe.result.data =
         IF HasScheduleWord(probe.text)
         THEN [intent |-> "agendar", title |-> probe.text, start_iso |-> <<>>, end_iso |-> <<>>,
               description |-> <<>>]
         ELSE IF HasAgendaWord(probe.text)
         THEN [intent |-> "consultar_agenda", time_min |-> <<>>, time_max |-> <<>>]
         ELSE [intent |-> "conversa", response |-> MsgInvalidJson]

\* short generic deflections
LowInformation == {<<"N","a~","o"," ","s","e","i",".">>, <<"N","a~","o"," ","e","n","t","e","n","d","i",".">>}

\* C28: when the conversa reply of the model is a short generic deflection,
\* the reply chat returns is not that deflection.
C28_NoVacuousReply ==
  (ChatCalled /\ aiConfigured /\ probe.gen.kind = "json"
     /\ Get(probe.gen.data, "intent", "None") = "conversa"
     /\ Get(probe.gen.data, "response", <<>>) \in LowInformation) =>
    /\ ~probe.result.raised
    /\ probe.result.data.response \notin LowInformation

\* C29: a webhook call in which the query of get_history fails does not end
\* in an error: the message goes on to the classifier (unless the stored
\* folder context served it before the history was read).
C29_HistoryTolerant ==
  (Called /\ dbConfigured /\ last.fault = "get_history" /\ last.status # "analyzed") =>
    /\ last.status # "error"
    /\ last.ai.called

\* the assistant turns of the chat's history
AssistantTurns(d, chat_id) ==
  SelectSeq(d.mensagens[ensure_string_id(chat_id)], LAMBDA t : t.role = "model")

\* the call that returns in this step had a store client, met no failing
\* Firestore call and did not end in an error
CleanCall == dbConfigured /\ last'.fault = "none" /\ last'.status \in {"ok", "analyzed"}

\* the intent that call was dispatched to ("None": it was not classified)
DispatchedIntent == IF last'.ai.called THEN Get(last'.ai.data, "intent", "None") ELSE "None"

ReadIntents == {"consultar_agenda", "list_tasks", "finance_report", "analyze_project"}

ActingIntents == {"conversa", "agendar", "add_task", "complete_task", "add_expense"}

\* C30: a call dispatched to consultar_agenda, list_tasks, finance_report or
\* analyze_project, or served from the stored folder context, appends no
\* assistant turn to the chat's history; a call dispatched to conversa,
\* agendar, add_task, complete_task or add_expense appends exactly one, which
\* holds the reply text.
C30_AssistantTurns ==
  [][\A s \in Slots :
       (Handled(s) /\ CleanCall) =>
         /\ (DispatchedIntent \in ReadIntents \/ last'.status = "analyzed") =>
              AssistantTurns(db', last'.chat) = AssistantTurns(db, last'.chat)
         /\ DispatchedIntent \in ActingIntents =>
              /\ last'.sent # <<>>
              /\ AssistantTurns(db', last'.chat) =
                   Append(AssistantTurns(db, last'.chat),
                          [role |-> "model", content |-> last'.sent[Len(last'.sent)]])]_vars

\* the morning loop has returned, with a store client
CronReturned == probe.fn \in {"cron_bom_dia", "main_cron_bom_dia"} /\ probe.done /\ dbConfigured

\* C31: when the morning loop returns, an iteration has run for every chat of
\* the list, whatever failed in the iterations of the others, and every chat
\* whose own iteration met no failure got its message.
C31_LoopResilient ==
  CronReturned =>
    /\ [j \in 1..Len(probe.ran) |-> probe.ran[j].chat] = probe.all_chats
    /\ \A j \in 1..Len(probe.ran) :
         probe.ran[j].outcome = "ok" => \E k \in 1..Len(probe.sent) : probe.sent[k].chat = probe.ran[j].chat

\* get_last_folder_context has returned, with a store client
ContextRead == probe.fn = "folder_context" /\ probe.done /\ dbConfigured

\* the names of a list of files
NamesOf(files) == [i \in 1..Len(files) |-> files[i].name]

\* C32: get_last_folder_context(c) returns the folder name and the file
\* names of the latest save_last_folder_context of chat c, whatever the list
\* of files, the empty one included, and returns None only when no context
\* was ever saved for c.
C32_ContextRoundTrip ==
  ContextRead =>
    LET l == probe.latest[probe.chat]
    IN  IF l.saved
        THEN /\ probe.result.found
             /\ probe.result.folder_name = l.folder_name
             /\ NamesOf(probe.result.files) = NamesOf(l.files)
        ELSE ~probe.result.found

\* reset_history has returned
ResetDone == probe.fn = "reset_history" /\ probe.done

\* the smaller of two numbers
Min(a, b) == IF a <= b THEN a ELSE b

\* C33: reset_history(c, N) on a history of n turns deletes min(N, n) turns,
\* the most recent ones: the turns that remain are the n - min(N, n) oldest.
C33_ResetMostRecent ==
  ResetDone =>
    LET n == Len(probe.before)
    IN  db.mensagens[ensure_string_id(probe.chat)] = SubSeq(probe.before, 1, n - Min(probe.limit, n))

\* the call that returns in this step handled a text message that got past
\* the anti-loop check and reached the classifier, with a store client
TextClassified == dbConfigured /\ last'.guard = "false" /\ ~last'.voice /\ last'.ai.called

\* the turns of the chat of that call before and after it
TurnsBefore == db.mensagens[ensure_string_id(last'.chat)]

TurnsAfter == db'.mensagens[ensure_string_id(last'.chat)]

\* C34: in a webhook call for a text message the user turn is persisted
\* before the classifier is called, and the assistant turn is persisted
\* before the reply is sent: a call that reached the classifier has appended
\* the user turn, and a call that sent the reply of a conversa, agendar,
\* add_task, complete_task or add_expense answer has appended the assistant
\* turn that holds it.
C34_StepOrder ==
  [][\A s \in Slots :
       (Handled(s) /\ TextClassified) =>
         /\ Len(TurnsAfter) > Len(TurnsBefore)
         /\ TurnsAfter[Len(TurnsBefore) + 1] = [role |-> "user", content |-> last'.text]
         /\ (DispatchedIntent \in ActingIntents /\ last'.sent # <<>>) =>
              /\ Len(TurnsAfter) = Len(TurnsBefore) + 2
              /\ TurnsAfter[Len(TurnsBefore) + 2] =
                   [role |-> "model", content |-> last'.sent[Len(last'.sent)]]]_vars

\* what the store holds for one chat
ChatData(d, chat_id) ==
  [mensagens |-> d.mensagens[ensure_string_id(chat_id)],
   tasks     |-> d.tasks[ensure_string_id(chat_id)],
   expenses  |-> d.expenses[ensure_string_id(chat_id)],
   chats     |-> d.chats[ensure_string_id(chat_id)],
   markers   |-> [k \in {m \in MarkerKeys : m[1] = ensure_string_id(chat_id)} |-> d.processed_ids[k]]]

\* the store with the data of that chat only
OnlyChat(d, chat_id) ==
  [processed_ids |-> [k \in MarkerKeys |-> IF k[1] = ensure_string_id(chat_id) THEN d.processed_ids[k] ELSE 0],
   mensagens     |-> [EmptyDb.mensagens EXCEPT ![ensure_string_id(chat_id)] = d.mensagens[ensure_string_id(chat_id)]],
   tasks         |-> [EmptyDb.tasks EXCEPT ![ensure_string_id(chat_id)] = d.tasks[ensure_string_id(chat_id)]],
   expenses      |-> [EmptyDb.expenses EXCEPT ![ensure_string_id(chat_id)] = d.expenses[ensure_string_id(chat_id)]],
   chats         |-> [EmptyDb.chats EXCEPT ![ensure_string_id(chat_id)] = d.chats[ensure_string_id(chat_id)]]]

\* what the webhook reads for a chat: history, tasks, expenses, folder context
ChatReads(d, chat_id) ==
  [history  |-> get_history(d, chat_id, HistoryLimit),
   tasks    |-> get_tasks(d, chat_id),
   expenses |-> MonthlyReportExecute(d, chat_id, Today),
   context  |-> get_last_folder_context(d, chat_id)]

\* the chats of the webhook calls that take this step: the call in a slot
\* that moves, or the command that is received and handled
StepChats ==
  {deliv[s].ev.chat : s \in {t \in Slots : deliv[t] # Idle /\ deliv'[t] # deliv[t]}}
  \cup (IF delivered' # delivered /\ deliv' = deliv THEN {last'.chat} ELSE {})

\* C35: a step of a webhook call for a chat leaves the turns, the markers,
\* the tasks, the expenses and the folder context of every other chat as
\* they were, and what is read for a chat (history, tasks, expenses, folder
\* context) does not depend on what the store holds for other chats.
C35_ChatIsolation ==
  [][\A c \in Chats :
       /\ c \notin StepChats => ChatData(db', c) = ChatData(db, c)
       /\ ChatReads(db', c) = ChatReads(OnlyChat(db', c), c)]_vars

\* C35 witness: a message of chat 8 was classified and answered while the
\* store holds turns and an expense of chat 7
C35_Witness ==
  /\ Called /\ dbConfigured /\ last.chat = 8 /\ last.ai.called /\ last.status = "ok"
  /\ db.mensagens[ensure_string_id(8)] # <<>>
  /\ db.mensagens[ensure_string_id(7)] # <<>>
  /\ db.expenses[ensure_string_id(7)] # <<>>

\* the pending tasks of a list of tasks, in order
PendingOf(ts) == SelectSeq(ts, LAMBDA t : t.status = "pendente")

\* the call that returns in this step was classified list_tasks and met no
\* failing Firestore call
ListTasksCall ==
  /\ dbConfigured /\ aiConfigured /\ last'.ai.called /\ last'.fault = "none"
  /\ last'.ai.gen.kind = "json" /\ Get(last'.ai.gen.data, "intent", "None") = "list_tasks"

\* C36: in every step the tasks of a chat stay as they are, or one pending
\* task is added, or one pending task becomes concluido: no task is removed
\* (not by /reset either) and no concluido task becomes pending again; the
\* reply to list_tasks names exactly the pending tasks of the chat.
C36_TaskLifecycle ==
  [][/\ \A k \in ChatKeys :
          LET ts == db.tasks[k]
              tn == db'.tasks[k]
          IN  \/ tn = ts
              \/ \E pos \in 0..Len(ts) :
                   /\ Len(tn) = Len(ts) + 1
                   /\ tn[pos + 1].status = "pendente"
                   /\ tn = InsertAt(ts, pos, tn[pos + 1])
              \/ \E i \in 1..Len(ts) :
                   /\ ts[i].status = "pendente"
                   /\ tn = [ts EXCEPT ![i].status = "concluido"]
     /\ \A s \in Slots :
          (Handled(s) /\ ListTasksCall) =>
            LET pending == PendingOf(db.tasks[ensure_string_id(last'.chat)])
            IN  last'.sent = <<IF pending = <<>> THEN <<":check:"," ","N","a","d","a",".">>
                               ELSE <<":memo:"," ","NL">> \o BulletLines(pending)>>]_vars

\* C36 witness: list_tasks was answered for a chat that holds a task
\* completed in this behaviour, next to the seeded completed one and two
\* pending ones; the reply names the two pending ones
C36_Witness ==
  /\ ClassifiedCall /\ last.ai.gen.kind = "json" /\ LastIntent = "list_tasks"
  /\ db.tasks[ensure_string_id(last.chat)] = [SeededTasks EXCEPT ![3].status = "concluido"]
  /\ last.sent = <<<<":memo:"," ","NL","-"," ","C","o","m","p","r","a","r"," ","p","a","o","NL","-"," ","P","a","g","a","r"," ","l","u","z">>>>

\* the call that returns in this step was classified complete_task with an
\* empty or missing item and met no failing Firestore call
CompleteNothingCall ==
  /\ dbConfigured /\ aiConfigured /\ last'.ai.called /\ last'.fault = "none"
  /\ last'.ai.gen.kind = "json" /\ Get(last'.ai.gen.data, "intent", "None") = "complete_task"
  /\ Get(last'.ai.gen.data, "item", <<>>) = <<>>

\* C37: a complete_task answer with an empty or missing item completes no
\* task: the tasks of the chat stay as they are and the reply says that
\* nothing was found.
C37_EmptyItemCompletesNothing ==
  [][\A s \in Slots :
       (Handled(s) /\ CompleteNothingCall) =>
         /\ db'.tasks = db.tasks
         /\ last'.sent = <<<<":mag:"," ","N","a~","o"," ","a","c","h","e","i",".">>>>]_vars

\* the calendar months around the instants of the clock, as <<year, month>>
ReportMonths == {<<2026, 10>>, <<2026, 11>>, <<2026, 12>>, <<2027, 1>>, <<2027, 2>>}

\* the months whose report, run in that month on a store that holds nothing
\* but the expense e of the chat, counts the expense
MonthsCounting(chat_id, e) ==
  {m \in ReportMonths :
     MonthlyReportExecute([EmptyDb EXCEPT !.expenses[ensure_string_id(chat_id)] = <<e>>],
                          chat_id, Instant(m[1], m[2], 0)).formatted # MsgNada}

\* C38: every stored expense is counted in the monthly report of exactly one
\* calendar month, the month of its timestamp: an expense stamped at the
\* first instant of a month is not counted in the report of the month
\* before, from December to January as well.
C38_OneMonthPerExpense ==
  probe.fn = "monthly_report" =>
    \A c \in Chats :
      \A i \in 1..Len(db.expenses[ensure_string_id(c)]) :
        LET e == db.expenses[ensure_string_id(c)][i]
        IN  MonthsCounting(c, e) = {<<YearOf(e.timestamp), MonthOf(e.timestamp)>>}

====
